---------------------------- MODULE Spec2Model ----------------------------
(***************************************************************************)
(* ExcaliDash: the real-time collaboration core.                           *)
(*                                                                         *)
(*   - the Reconciliation Engine (utils/sync reconcileElements), a pure    *)
(*     function, exercised by SpecReconcile;                               *)
(*   - the SharedView component (element version tracker, render/sync      *)
(*     loop, autosave coordinator, broadcast throttle) of every client,    *)
(*     and the server's socket relay, exercised by Spec.                   *)
(***************************************************************************)
EXTENDS Integers, Sequences, FiniteSets, TLC

(***************************************************************************)
(* Bounds of the model.                                                    *)
(***************************************************************************)
\* highest element version the pure-function inputs carry
MaxVersion == 1
\* the ghost count of batches applied saturates here
MaxSteps == 2
\* under SpecServer: successful updates of the stored drawings in one run
MaxStoreUpdates == 1
\* under the timed specifications: the clock at the start (ms; Date.now() is
\* far from 0) and the time a run covers
StartTime == 100
MaxTime == 80
\* under SpecThrottle: the step of the clock, ms (events fall on this grid),
\* and the local edits in one run
TimeGrid == 10
MaxTimedEdits == 3
\* local edits (user mutations of an element) in one run
MaxEdits == 2
\* under SpecView: element-update messages the peer sends in one run, and
\* the highest version they carry
MaxPeerUpdates == 1
MaxPeerVersion == 2
MaxPeerCursors == 2
MaxDrops == 3
MaxOrderVersion == 2
MaxDrainUpdates == 2

\* `element.version ?? 0`: a field the element lacks (undefined)
Missing == -1

\* element ids and versionNonce values of the pure-function inputs
Ids == {"x", "y"}

Nonces == {0, 1}

(***************************************************************************)
(* Elements.  An element is a record; a field the element lacks holds      *)
(* Missing.  isDeleted stands for the content reconciliation never reads;  *)
(* the content of a well-formed element is a function of its fingerprint   *)
(* (id, version, versionNonce), as the data model assumes.  A malformed    *)
(* element lacks both version fields.                                      *)
(***************************************************************************)
WellFormed ==
    {[id |-> i, version |-> v, versionNonce |-> n, isDeleted |-> (n = 1)] :
        i \in Ids, v \in 0..MaxVersion, n \in Nonces}

Malformed ==
    {[id |-> i, version |-> Missing, versionNonce |-> Missing, isDeleted |-> FALSE] :
        i \in Ids}

Elements == WellFormed \cup Malformed

\* mutant: element.version, as it is
VerAsIs(el) == el.version

\* element.version ?? 0
Ver(el) == IF el.version = Missing THEN 0 ELSE el.version

\* element.versionNonce ?? 0
Nonce(el) == IF el.versionNonce = Missing THEN 0 ELSE el.versionNonce

DistinctIds(s) == \A i, j \in DOMAIN s : i # j => s[i].id # s[j].id

SeqsUpTo(S, n) == UNION {[1..k -> S] : k \in 0..n}

HasId(s, id) == \E i \in DOMAIN s : s[i].id = id

\* the first element of s with this id (s holds one)
ById(s, id) == s[CHOOSE i \in DOMAIN s : s[i].id = id /\ \A j \in 1..(i-1) : s[j].id # id]

Max(x, y) == IF x >= y THEN x ELSE y

(***************************************************************************)
(* Reconciliation Engine (utils/sync).                                     *)
(***************************************************************************)
\* mutants of the comparison
RemoteWinsAnyOther(localEl, remoteEl) == Ver(remoteEl) # Ver(localEl) \/ Nonce(remoteEl) # Nonce(localEl)

RemoteWinsNewerOnly(localEl, remoteEl) == Ver(remoteEl) > Ver(localEl)

\* remote replaces local: newer, or the same version with another nonce
RemoteWins(localEl, remoteEl) ==
    \/ Ver(remoteEl) > Ver(localEl)
    \/ Ver(remoteEl) = Ver(localEl) /\ Nonce(remoteEl) # Nonce(localEl)

\* mutant: the remote element is pushed without the lookup by id
ReconcileAppend(localElements, remoteEl) == Append(localElements, remoteEl)

\* mutant: an element with a new id is put in front of the local ones
ReconcileInFront(localElements, remoteEl) ==
    IF ~HasId(localElements, remoteEl.id)
    THEN << remoteEl >> \o localElements
    ELSE [i \in DOMAIN localElements |->
            IF localElements[i].id = remoteEl.id /\ RemoteWins(localElements[i], remoteEl)
            THEN remoteEl
            ELSE localElements[i]]

\* one remote element against the lookup of local elements by id
ReconcileOne(localElements, remoteEl) ==
    IF ~HasId(localElements, remoteEl.id)
    THEN Append(localElements, remoteEl)
    ELSE [i \in DOMAIN localElements |->
            IF localElements[i].id = remoteEl.id /\ RemoteWins(localElements[i], remoteEl)
            THEN remoteEl
            ELSE localElements[i]]

RECURSIVE reconcileElements(_, _)
reconcileElements(localElements, remoteElements) ==
    IF remoteElements = <<>>
    THEN localElements
    ELSE reconcileElements(ReconcileOne(localElements, Head(remoteElements)),
                           Tail(remoteElements))

(***************************************************************************)
(* State.                                                                  *)
(***************************************************************************)
VARIABLES
    rcLocal,    \* the local sequence handed to the last reconcileElements call
    rcRemote,   \* the remote batch handed to it
    rcMerged,   \* what it returned (before any call: the original local sequence)
    rcMaxSeen,  \* ghost: per id, the highest version seen so far (Missing: none)
    rcSteps,    \* ghost: batches applied so far, saturating at MaxSteps
    \* --- one SharedView per client ---
    permission,           \* drawing.permission: "view" | "edit"
    scene,                \* excalidrawAPI.getSceneElementsIncludingDeleted()
    selected,             \* appState.selectedElementIds
    isSyncing,            \* isSyncing.current
    elementVersionMap,    \* elementVersionMap.current: id -> <<version, nonce>>
    elementUpdateBuffer,  \* elementUpdateBuffer.current
    saveArmed,            \* debouncedSave: its timer is running
    saveArgs,             \* debouncedSave: the elements of its last call
    thrOpen,              \* broadcastChanges: inside the 50 ms window
    thrArmed,             \* broadcastChanges: a call is held for the trailing edge
    thrArgs,              \* broadcastChanges: the elements of that call
    peers,                \* peers (ids of the other participants)
    connected,            \* socket.connected
    \* --- the network and the server ---
    chanUp,               \* per socket: messages emitted, not yet handled by the server
    chanDown,             \* per socket: messages the server emitted to it
    roomSockets,          \* sockets that joined the room of the drawing (socket.join)
    roomUsers,            \* roomUsers.get(roomId)
    \* --- ghosts ---
    storeCalls,           \* per client: payloads handed to api.updateSharedDrawing
    excluded,             \* per client: what the last tick left out as selected
    lastDrain,            \* per client: buffered updates the last tick's dedupMap did not keep
    edits,                \* local edits so far
    peerSent,             \* under SpecView: messages the peer has sent
    \* --- the server with its rooms (SpecServer) ---
    sockets,              \* the connected sockets
    socketRooms,          \* per room id: the sockets that joined it (socket.join)
    roomUsersMap,         \* roomUsers: Map from room id to SocketUser[]
    emitted,              \* what the last handler emitted: a set of [to, msg]
    srvEvent,             \* the event the server handled last
    drawingVersion,       \* per drawing: the stored drawing's version
    \* --- the clock and the pointer of one SharedView (SpecCursor) ---
    now,                  \* Date.now(), in ms
    lastCursorEmit,       \* lastCursorEmit.current
    cursorSent,           \* the cursor-move messages emitted: [at, pointer]
    \* --- broadcastChanges of client A against the clock (SpecThrottle) ---
    thrLastCallTime,      \* throttle: lastCallTime (NoTime: undefined)
    thrLastInvokeTime,    \* throttle: lastInvokeTime
    thrTimerAt,           \* throttle: when its timer expires (while thrOpen)
    elementSent,          \* the element-update messages emitted: [at, elements]
    \* --- the version tracker called directly (SpecTracker) ---
    hcLast,               \* the last call: [op, element, result, before]
    \* --- the render loop, the cursors and the life of one SharedView ---
    cursorBuffer,         \* cursorBuffer.current: user id -> pointer
    collaborators,        \* appState.collaborators: user id -> pointer
    tickUpdates,          \* ghost: the updateScene calls of the last tick
    frameRequested,       \* the renderLoop frame of animationFrameId is pending
    listening,            \* the socket's handlers are registered
    mounted,              \* the component is mounted
    peerCursors,          \* under SpecSession: cursor-moves the peers have sent
    \* --- clients that lose and re-establish their connection (SpecRejoin) ---
    cliSocket,            \* per user: the socket of its SharedView (NoSocket: none)
    pendingJoin,          \* sockets whose join-room is emitted, not yet handled
    drops,                \* connection drops and server restarts so far
    \* --- the stored drawing d1, its share link and the requests (SpecStore) ---
    link,                 \* the ShareLink row: [isActive, permission, expired]
    content,              \* the stored elements of d1: the request that wrote them
    reqs,                 \* per request: [kind, pc, status, held, data]
    drawingsCache,        \* drawingsCache: the version of d1 the cached list body shows
    \* --- two batches applied in both orders (SpecOrder) ---
    ordRemote,            \* the second batch (the first is rcRemote)
    ordMerged             \* the result of the second batch first, then the first

rcVars == <<rcLocal, rcRemote, rcMerged, rcMaxSeen, rcSteps>>

clientVars == <<permission, scene, selected, isSyncing, elementVersionMap,
                elementUpdateBuffer, saveArmed, saveArgs, thrOpen, thrArmed,
                thrArgs, peers, connected>>

netVars == <<chanUp, chanDown, roomSockets, roomUsers>>

ghostVars == <<storeCalls, excluded, lastDrain, edits, peerSent>>

roomVars == <<clientVars, netVars, ghostVars>>

srvVars == <<sockets, socketRooms, roomUsersMap, emitted, srvEvent, drawingVersion>>

\* what the client specifications leave alone
cursorVars == <<now, lastCursorEmit, cursorSent>>

thrTimeVars == <<thrLastCallTime, thrLastInvokeTime, thrTimerAt, elementSent>>

viewVars == <<cursorBuffer, collaborators, tickUpdates, frameRequested, listening,
              mounted, peerCursors>>

rejoinVars == <<cliSocket, pendingJoin, drops>>

storeVars == <<link, content, reqs, drawingsCache>>

orderVars == <<ordRemote, ordMerged>>

moreVars == <<rejoinVars, storeVars, orderVars>>

otherVars == <<srvVars, cursorVars, thrTimeVars, hcLast, moreVars>>

auxVars == <<otherVars, viewVars>>

vars == <<rcVars, roomVars, auxVars>>

(***************************************************************************)
(* The room: clients, their sockets, the drawing they load.                *)
(***************************************************************************)
\* one socket per client; the user id (me.id) and the socket id are the client's name
Clients == {"A", "B"}

\* data.userId of a cursor-move: the clients and one more participant
UserIds == Clients \cup {"P"}

\* data.pointer of a cursor-move
Pointers == {"p1", "p2"}

\* Map.get(userId) of a user without an entry
NoCursor == "none"

\* new Map()
NoCursors == [u \in UserIds |-> NoCursor]

\* the versionNonce of a local edit is random: here one value per editing
\* client, which with the version the edit gives names the edit
NonceOf(c) == IF c = "A" THEN 1 ELSE 2

\* GET /shared/:token: the elements every client loads
InitialDrawing ==
    << [id |-> "y", version |-> 1, versionNonce |-> 0, isDeleted |-> FALSE] >>

NoEntry == << >>

\* recordElementVersion: the entry stored for an element
VersionInfo(el) == << Ver(el), Nonce(el) >>

hasElementChangedAlways(map, el) == TRUE

\* hasElementChanged: never seen (it is then recorded by the caller's
\* recordElementVersion as well), or the stored version or nonce differs
hasElementChanged(map, el) == map[el.id] = NoEntry \/ map[el.id] # VersionInfo(el)

\* recordElementVersion over a list of elements (one per id)
recordAll(map, els) ==
    [id \in Ids |-> IF HasId(els, id) THEN VersionInfo(ById(els, id)) ELSE map[id]]

ElementUpdate(c, els) ==
    [type |-> "element-update", elements |-> els, userId |-> c, users |-> << >>]

JoinRoom(c) ==
    [type |-> "join-room", elements |-> << >>, userId |-> c, users |-> << >>]

PresenceUpdate(users) ==
    [type |-> "presence-update", elements |-> << >>, userId |-> "", users |-> users]

CursorMove(user, pointer) ==
    [type |-> "cursor-move", elements |-> << >>, userId |-> user, users |-> << >>,
     pointer |-> pointer]

\* presence-update: collaborators.delete(user.id) for every user of the
\* roster that is not active and is not me
WithoutInactive(map, users, me) ==
    [u \in UserIds |->
        IF \E i \in DOMAIN users :
              users[i].id = u /\ ~users[i].isActive /\ users[i].id # me
        THEN NoCursor ELSE map[u]]

\* mutant: the render loop applies updates of selected elements too
SelectedToo(c, el) == TRUE

\* renderLoop: (el) => !mySelectedIds[el.id]
NotSelected(c, el) == el.id \notin selected[c]

\* mutant: the dedupMap keeps the last buffered element of an id
RECURSIVE DedupKeepLast(_, _)
DedupKeepLast(buf, acc) ==
    IF buf = << >> THEN acc
    ELSE LET el == Head(buf) IN
         DedupKeepLast(Tail(buf),
               IF ~HasId(acc, el.id)
               THEN Append(acc, el)
               ELSE [i \in DOMAIN acc |-> IF acc[i].id = el.id THEN el ELSE acc[i]])

\* renderLoop: dedupMap, the first element of the highest version per id, in
\* the order the ids first came
RECURSIVE Dedup(_, _)
Dedup(buf, acc) ==
    IF buf = << >> THEN acc
    ELSE LET el == Head(buf) IN
         Dedup(Tail(buf),
               IF ~HasId(acc, el.id)
               THEN Append(acc, el)
               ELSE [i \in DOMAIN acc |->
                        IF acc[i].id = el.id /\ Ver(el) > Ver(acc[i])
                        THEN el ELSE acc[i]])

\* renderLoop: remoteElements
RemoteElements(c) ==
    SelectSeq(Dedup(elementUpdateBuffer[c], << >>), LAMBDA el : NotSelected(c, el))

\* renderLoop: cursorBuffer.current.forEach((data, userId) =>
\* collaborators.set(userId, data))
MergeCursors(map, buffer) ==
    [u \in UserIds |-> IF buffer[u] # NoCursor THEN buffer[u] ELSE map[u]]

\* renderLoop: Object.keys(sceneUpdate)
SceneUpdateKeys(c) ==
    (IF RemoteElements(c) # << >> THEN {"elements"} ELSE {})
        \cup (IF cursorBuffer[c] # NoCursors THEN {"collaborators"} ELSE {})

\* mutant: the render loop calls updateScene once per kind of update
UpdateScenePerKey(keys) ==
    (IF "elements" \in keys THEN << {"elements"} >> ELSE << >>)
        \o (IF "collaborators" \in keys THEN << {"collaborators"} >> ELSE << >>)

\* renderLoop: the updateScene calls of one tick, each with the keys it carries
UpdateSceneCalls(keys) == IF keys # {} THEN << keys >> ELSE << >>

\* debouncedSave's payload: elements.filter(e => !e.isDeleted)
NonDeleted(els) == SelectSeq(els, LAMBDA el : ~el.isDeleted)

\* debouncedSave is useRef(debounce(...)).current: the function of the FIRST
\* render is kept, and it closes over that render's `drawing`, which is the
\* initial state null; `!drawing` is true in it for ever
SaveSeesDrawing(c) == FALSE

\* mutant: the server relays an element-update to nobody
SocketToNobody(c) == {}

\* socket.to(roomId): the sockets of the room but the sender's
SocketToRoom(c) == roomSockets \ {c}

\* mutant: handleCanvasChange without the permission gate
MayEditAlways(c) == TRUE

\* handleCanvasChange: drawing.permission === 'edit'
MayEdit(c) == permission[c] = "edit"

(***************************************************************************)
(* The server's rooms (backend/src/index.ts): sockets, room ids, the users *)
(* the sockets join as.                                                    *)
(***************************************************************************)
\* socket.id of the connections
Sockets == {"s1", "s2", "s3"}

\* drawingId (the room id is `drawing_${drawingId}`)
Rooms == {"d1", "d2"}

\* user.id a socket sends in join-room: s1 and s2 are two tabs of one
\* browser (getUserIdentity), s3 is another user's; the server takes the id
\* from the message, so s1 may also join under the other id
Identities(s) ==
    IF s = "s1" THEN {"u1", "u2"} ELSE IF s = "s2" THEN {"u1"} ELSE {"u2"}

\* the drawings a socket's client opens (it sends join-room for these only;
\* its other messages may name any drawing)
Opens(s) == IF s = "s1" THEN Rooms ELSE IF s = "s2" THEN {"d1"} ELSE {"d2"}

\* the version a drawing is created with
InitialVersion == 1

NoEvent == [type |-> "none"]

Event(type) == [type |-> type]

\* a message as a socket receives it
Msg(type, d, from, users) == [type |-> type, room |-> d, from |-> from, users |-> users]

\* io.to(roomId).emit / socket.to(roomId).emit: one copy per receiving socket
EmitTo(targets, msg) == {[to |-> t, msg |-> msg] : t \in targets}

\* roomUsers.get(roomId) || []
CurrentUsers(d) == IF d \in DOMAIN roomUsersMap THEN roomUsersMap[d] ELSE << >>

\* roomUsers.set(roomId, users)
MapSet(map, d, users) ==
    [r \in DOMAIN map \cup {d} |-> IF r = d THEN users ELSE map[r]]

\* mutant: the first entry of the room is taken for the socket's
FindIndexFirst(users, s) == IF users # << >> THEN 1 ELSE 0

\* users.findIndex(u => u.socketId === socket.id); 0 when there is none
FindIndex(users, s) ==
    IF \E i \in DOMAIN users : users[i].socketId = s
    THEN CHOOSE i \in DOMAIN users :
            /\ users[i].socketId = s
            /\ \A j \in 1..(i - 1) : users[j].socketId # s
    ELSE 0

\* users.splice(index, 1)
Splice(users, index) ==
    [i \in 1..(Len(users) - 1) |-> IF i < index THEN users[i] ELSE users[i + 1]]

SrvStart ==
    /\ sockets = {}
    /\ socketRooms = [d \in Rooms |-> {}]
    /\ roomUsersMap = [d \in {} |-> << >>]
    /\ emitted = {}
    /\ srvEvent = NoEvent
    /\ drawingVersion = [d \in Rooms |-> InitialVersion]

NoCall == [op |-> "none"]

\* the HTTP requests, each sent once
ReqIds == {"r1", "r2", "r3"}

\* a request not sent yet
NoRequest == [kind |-> "none", pc |-> "idle", status |-> 0, held |-> 0,
              data |-> [isActive |-> TRUE, permission |-> "edit"]]

\* drawingsCache.get(key) of a key the Map does not hold
NoCacheEntry == 0

\* the link as POST /drawings/:id/share creates it for editing; the drawing
\* with the content it was created with
StoreStart ==
    /\ link = [isActive |-> TRUE, permission |-> "edit", expired |-> FALSE]
    /\ content = "created"
    /\ reqs = [r \in ReqIds |-> NoRequest]
    /\ drawingsCache = NoCacheEntry

\* the users whose SharedView opens drawing d1 (me.id of getUserIdentity)
RejoinUsers == {"u1", "u2"}

NoSocket == "none"

\* no SharedView has connected yet
RejoinStart ==
    /\ cliSocket = [u \in RejoinUsers |-> NoSocket]
    /\ pendingJoin = {}
    /\ drops = 0

\* the cursors: nothing buffered, appState.collaborators is new Map(); the
\* socket effect has run: handlers registered, renderLoop requested
ViewStart ==
    /\ cursorBuffer = [c \in Clients |-> NoCursors]
    /\ collaborators = [c \in Clients |-> NoCursors]
    /\ tickUpdates = [c \in Clients |-> << >>]
    /\ frameRequested = [c \in Clients |-> TRUE]
    /\ listening = [c \in Clients |-> TRUE]
    /\ mounted = [c \in Clients |-> TRUE]
    /\ peerCursors = 0

\* a time that is not set (lastCallTime before the first call, no timer)
NoTime == -1

\* the clock when the view is mounted; lastCursorEmit starts at 0, and so
\* does the throttle's lastInvokeTime
CursorStart ==
    /\ now = StartTime
    /\ lastCursorEmit = 0
    /\ cursorSent = << >>
    /\ thrLastCallTime = NoTime
    /\ thrLastInvokeTime = 0
    /\ thrTimerAt = NoTime
    /\ elementSent = << >>
    /\ hcLast = NoCall
    /\ ViewStart
    /\ RejoinStart
    /\ StoreStart
    /\ ordRemote = << >>
    /\ ordMerged = << >>

(***************************************************************************)
(* The state after construction: every client has loaded the drawing       *)
(* (versions recorded), Excalidraw is ready, the socket is created and not *)
(* yet connected.                                                          *)
(***************************************************************************)
RoomStart ==
    /\ scene = [c \in Clients |-> InitialDrawing]
    /\ selected = [c \in Clients |-> {}]
    /\ isSyncing = [c \in Clients |-> FALSE]
    /\ elementVersionMap =
          [c \in Clients |-> recordAll([id \in Ids |-> NoEntry], InitialDrawing)]
    /\ elementUpdateBuffer = [c \in Clients |-> << >>]
    /\ saveArmed = [c \in Clients |-> FALSE]
    /\ saveArgs = [c \in Clients |-> << >>]
    /\ thrOpen = [c \in Clients |-> FALSE]
    /\ thrArmed = [c \in Clients |-> FALSE]
    /\ thrArgs = [c \in Clients |-> << >>]
    /\ peers = [c \in Clients |-> {}]
    /\ connected = [c \in Clients |-> FALSE]
    /\ chanUp = [c \in Clients |-> << >>]
    /\ chanDown = [c \in Clients |-> << >>]
    /\ roomSockets = {}
    /\ roomUsers = << >>
    /\ storeCalls = [c \in Clients |-> << >>]
    /\ excluded = [c \in Clients |-> << >>]
    /\ lastDrain = [c \in Clients |-> 0]
    /\ edits = 0
    /\ peerSent = 0

\* the room left alone (under SpecReconcile)
RoomIdle ==
    /\ permission = [c \in Clients |-> "edit"]
    /\ RoomStart

RcIdle ==
    /\ rcLocal = << >>
    /\ rcRemote = << >>
    /\ rcMerged = << >>
    /\ rcMaxSeen = [id \in Ids |-> Missing]
    /\ rcSteps = 0

\* A may edit; B views or edits (two viewers emit nothing at all)
Init ==
    /\ permission \in {p \in [Clients -> {"view", "edit"}] : p["A"] = "edit"}
    /\ RoomStart
    /\ RcIdle
    /\ SrvStart
    /\ CursorStart

(***************************************************************************)
(* SpecReconcile: reconcileElements applied to a sequence of batches.      *)
(***************************************************************************)
\* an ordered sequence of elements, one per id at most
LocalSeqs == {s \in SeqsUpTo(Elements, Cardinality(Ids)) : DistinctIds(s)}

\* a remote set of elements, in the order the caller hands it over
RemoteBatches == LocalSeqs

\* the highest version a sequence carries for an id, at least m
RECURSIVE SeenMax(_, _, _)
SeenMax(s, id, m) ==
    IF s = <<>> THEN m
    ELSE SeenMax(Tail(s), id, IF Head(s).id = id THEN Max(m, Ver(Head(s))) ELSE m)

RcInit ==
    /\ rcMerged \in LocalSeqs
    /\ rcLocal = rcMerged
    /\ rcRemote = <<>>
    /\ rcMaxSeen = [id \in Ids |-> SeenMax(rcMerged, id, Missing)]
    /\ rcSteps = 0
    /\ RoomIdle
    /\ SrvStart
    /\ CursorStart

Reconcile ==
    \E batch \in RemoteBatches :
        /\ rcLocal' = rcMerged
        /\ rcRemote' = batch
        /\ rcMerged' = reconcileElements(rcMerged, batch)
        /\ rcMaxSeen' = [id \in Ids |-> SeenMax(batch, id, rcMaxSeen[id])]
        /\ rcSteps' = IF rcSteps < MaxSteps THEN rcSteps + 1 ELSE rcSteps
        /\ UNCHANGED <<auxVars, roomVars>>

RcNext == Reconcile

SpecReconcile == RcInit /\ [][RcNext]_vars

(***************************************************************************)
(* SharedView: broadcastChanges (lodash throttle, 50 ms, leading and       *)
(* trailing) and debouncedSave (lodash debounce, 1500 ms).  Time is not    *)
(* counted: a timer that runs may expire at any later step.                *)
(***************************************************************************)
\* the throttled function: the changed elements are recorded and emitted
BroadcastInvoke(c, elements) ==
    LET changes == SelectSeq(elements,
                             LAMBDA el : hasElementChanged(elementVersionMap[c], el))
    IN  /\ elementVersionMap' =
              [elementVersionMap EXCEPT ![c] = recordAll(@, changes)]
        /\ chanUp' = IF changes # << >>
                     THEN [chanUp EXCEPT ![c] = Append(@, ElementUpdate(c, changes))]
                     ELSE chanUp

\* a call of broadcastChanges: at once when no window is open (leading
\* edge), else held, the last call's elements replacing those held
broadcastChanges(c, elements) ==
    IF ~thrOpen[c]
    THEN /\ thrOpen' = [thrOpen EXCEPT ![c] = TRUE]
         /\ BroadcastInvoke(c, elements)
         /\ UNCHANGED <<thrArmed, thrArgs>>
    ELSE /\ thrArmed' = [thrArmed EXCEPT ![c] = TRUE]
         /\ thrArgs' = [thrArgs EXCEPT ![c] = elements]
         /\ UNCHANGED <<thrOpen, elementVersionMap, chanUp>>

\* handleCanvasChange(elements, appState), called by Excalidraw's onChange
handleCanvasChange(c, allElements) ==
    IF ~isSyncing[c] /\ MayEdit(c)
    THEN /\ saveArmed' = [saveArmed EXCEPT ![c] = TRUE]
         /\ saveArgs' = [saveArgs EXCEPT ![c] = allElements]
         /\ broadcastChanges(c, allElements)
    ELSE UNCHANGED <<saveArmed, saveArgs, thrOpen, thrArmed, thrArgs,
                     elementVersionMap, chanUp>>

\* the element a local edit of id gives: a new element at version 1, or the
\* scene's element at the next version; the nonce is the editor's
Edited(c, id) ==
    IF HasId(scene[c], id)
    THEN [ById(scene[c], id) EXCEPT !.version = Ver(ById(scene[c], id)) + 1,
                                    !.versionNonce = NonceOf(c)]
    ELSE [id |-> id, version |-> 1, versionNonce |-> NonceOf(c), isDeleted |-> FALSE]

Replaced(els, el) ==
    IF HasId(els, el.id)
    THEN [i \in DOMAIN els |-> IF els[i].id = el.id THEN el ELSE els[i]]
    ELSE Append(els, el)

\* the user edits or creates an element (an id is created once, by one
\* client); Excalidraw then calls onChange
LocalEdit(c, id) ==
    /\ mounted[c]
    /\ edits < MaxEdits
    /\ HasId(scene[c], id) \/ \A d \in Clients : ~HasId(scene[d], id)
    /\ edits' = edits + 1
    /\ scene' = [scene EXCEPT ![c] = Replaced(@, Edited(c, id))]
    /\ handleCanvasChange(c, scene'[c])
    /\ UNCHANGED <<auxVars, rcVars, permission, selected, isSyncing, elementUpdateBuffer,
                   peers, connected, chanDown, roomSockets, roomUsers, storeCalls,
                   excluded, lastDrain, peerSent>>

\* the user selects or deselects an element of the scene; onChange follows
Select(c, id) ==
    /\ mounted[c]
    /\ HasId(scene[c], id)
    /\ selected' = [selected EXCEPT ![c] =
                        IF id \in @ THEN @ \ {id} ELSE @ \cup {id}]
    /\ handleCanvasChange(c, scene[c])
    /\ UNCHANGED <<auxVars, rcVars, permission, scene, isSyncing, elementUpdateBuffer,
                   peers, connected, chanDown, roomSockets, roomUsers, ghostVars>>

\* onChange without an edit (any update of the Excalidraw component: pointer
\* moves, the re-render after a programmatic updateScene)
CanvasChange(c) ==
    /\ mounted[c]
    /\ handleCanvasChange(c, scene[c])
    /\ UNCHANGED <<auxVars, rcVars, permission, scene, selected, isSyncing,
                   elementUpdateBuffer, peers, connected, chanDown, roomSockets,
                   roomUsers, ghostVars>>

\* the throttle's timer expires: the held call runs (trailing edge)
ThrottleTimer(c) ==
    /\ thrOpen[c]
    /\ thrOpen' = [thrOpen EXCEPT ![c] = FALSE]
    /\ thrArmed' = [thrArmed EXCEPT ![c] = FALSE]
    /\ thrArgs' = [thrArgs EXCEPT ![c] = << >>]
    /\ IF thrArmed[c]
       THEN BroadcastInvoke(c, thrArgs[c])
       ELSE UNCHANGED <<elementVersionMap, chanUp>>
    /\ UNCHANGED <<auxVars, rcVars, permission, scene, selected, isSyncing,
                   elementUpdateBuffer, saveArmed, saveArgs, peers, connected,
                   chanDown, roomSockets, roomUsers, ghostVars>>

\* the debounce's timer expires: the debounced function runs with the
\* elements of the last call
DebounceTimer(c) ==
    /\ saveArmed[c]
    /\ saveArmed' = [saveArmed EXCEPT ![c] = FALSE]
    /\ saveArgs' = [saveArgs EXCEPT ![c] = << >>]
    /\ storeCalls' =
          IF SaveSeesDrawing(c) /\ permission[c] = "edit"
          THEN [storeCalls EXCEPT ![c] = Append(@, NonDeleted(saveArgs[c]))]
          ELSE storeCalls
    /\ UNCHANGED <<auxVars, rcVars, permission, scene, selected, isSyncing,
                   elementVersionMap, elementUpdateBuffer, thrOpen, thrArmed,
                   thrArgs, peers, connected, netVars, excluded, lastDrain, edits, peerSent>>

(***************************************************************************)
(* SharedView: the render loop.  One animation frame runs the callback     *)
(* that resets isSyncing (requested by the previous tick, so it is first)  *)
(* and then renderLoop.                                                    *)
(***************************************************************************)
Frame(c) ==
    LET remoteElements == RemoteElements(c) IN
    /\ frameRequested[c]
    /\ IF cursorBuffer[c] # NoCursors
       THEN /\ collaborators' =
                  [collaborators EXCEPT ![c] = MergeCursors(@, cursorBuffer[c])]
            /\ cursorBuffer' = [cursorBuffer EXCEPT ![c] = NoCursors]
       ELSE UNCHANGED <<collaborators, cursorBuffer>>
    /\ tickUpdates' = [tickUpdates EXCEPT ![c] = UpdateSceneCalls(SceneUpdateKeys(c))]
    /\ isSyncing' = [isSyncing EXCEPT ![c] = (elementUpdateBuffer[c] # << >>)]
    /\ elementUpdateBuffer' = [elementUpdateBuffer EXCEPT ![c] = << >>]
    /\ IF remoteElements # << >>
       THEN /\ scene' = [scene EXCEPT ![c] = reconcileElements(@, remoteElements)]
            /\ elementVersionMap' =
                  [elementVersionMap EXCEPT ![c] = recordAll(@, remoteElements)]
       ELSE UNCHANGED <<scene, elementVersionMap>>
    /\ excluded' = [excluded EXCEPT ![c] =
                        SelectSeq(Dedup(elementUpdateBuffer[c], << >>),
                                  LAMBDA el : el.id \in selected[c])]
    /\ lastDrain' = [lastDrain EXCEPT ![c] =
                        Len(elementUpdateBuffer[c]) - Len(Dedup(elementUpdateBuffer[c], << >>))]
    /\ UNCHANGED <<otherVars, rcVars, permission, selected, saveArmed, saveArgs, thrOpen,
                   thrArmed, thrArgs, peers, connected, netVars, storeCalls,
                   edits, peerSent, frameRequested, listening, mounted, peerCursors>>

(***************************************************************************)
(* The socket of a client.                                                 *)
(***************************************************************************)
\* socket.on('connect'): what was emitted before is sent first, then join-room
Connect(c) ==
    /\ listening[c]
    /\ ~connected[c]
    /\ connected' = [connected EXCEPT ![c] = TRUE]
    /\ chanUp' = [chanUp EXCEPT ![c] = Append(@, JoinRoom(c))]
    /\ UNCHANGED <<auxVars, rcVars, permission, scene, selected, isSyncing,
                   elementVersionMap, elementUpdateBuffer, saveArmed, saveArgs,
                   thrOpen, thrArmed, thrArgs, peers, chanDown, roomSockets,
                   roomUsers, ghostVars>>

\* socket.on('element-update'): the elements are buffered
ClientElementUpdate(c) ==
    /\ listening[c]
    /\ chanDown[c] # << >>
    /\ Head(chanDown[c]).type = "element-update"
    /\ elementUpdateBuffer' =
          [elementUpdateBuffer EXCEPT ![c] = @ \o Head(chanDown[c]).elements]
    /\ chanDown' = [chanDown EXCEPT ![c] = Tail(@)]
    /\ UNCHANGED <<auxVars, rcVars, permission, scene, selected, isSyncing,
                   elementVersionMap, saveArmed, saveArgs, thrOpen, thrArmed,
                   thrArgs, peers, connected, chanUp, roomSockets, roomUsers,
                   ghostVars>>

\* socket.on('presence-update')
ClientPresenceUpdate(c) ==
    /\ listening[c]
    /\ chanDown[c] # << >>
    /\ Head(chanDown[c]).type = "presence-update"
    /\ collaborators' = [collaborators EXCEPT ![c] =
                            WithoutInactive(@, Head(chanDown[c]).users, c)]
    /\ peers' = [peers EXCEPT ![c] =
                    {Head(chanDown[c]).users[i].id :
                        i \in DOMAIN Head(chanDown[c]).users} \ {c}]
    /\ chanDown' = [chanDown EXCEPT ![c] = Tail(@)]
    /\ UNCHANGED <<otherVars, rcVars, permission, scene, selected, isSyncing,
                   elementVersionMap, elementUpdateBuffer, saveArmed, saveArgs,
                   thrOpen, thrArmed, thrArgs, connected, chanUp, roomSockets,
                   roomUsers, ghostVars, cursorBuffer, tickUpdates, frameRequested,
                   listening, mounted, peerCursors>>

\* socket.on('cursor-move'): the cursor is buffered under its user id
ClientCursorMove(c) ==
    /\ listening[c]
    /\ chanDown[c] # << >>
    /\ Head(chanDown[c]).type = "cursor-move"
    /\ cursorBuffer' = [cursorBuffer EXCEPT
                          ![c][Head(chanDown[c]).userId] = Head(chanDown[c]).pointer]
    /\ chanDown' = [chanDown EXCEPT ![c] = Tail(@)]
    /\ UNCHANGED <<otherVars, rcVars, clientVars, chanUp, roomSockets, roomUsers,
                   ghostVars, collaborators, tickUpdates, frameRequested, listening,
                   mounted, peerCursors>>

(***************************************************************************)
(* The server (backend/src/index.ts, io.on("connection")).                 *)
(***************************************************************************)
\* socket.on("join-room")
ServerJoinRoom(c) ==
    /\ connected[c]
    /\ chanUp[c] # << >>
    /\ Head(chanUp[c]).type = "join-room"
    /\ LET user == Head(chanUp[c]).userId
           newUser == [id |-> user, socketId |-> c, isActive |-> TRUE]
           filteredUsers == Append(SelectSeq(roomUsers, LAMBDA u : u.id # user), newUser)
       IN  /\ roomSockets' = roomSockets \cup {c}
           /\ roomUsers' = filteredUsers
           /\ chanDown' = [t \in Clients |->
                              IF t \in roomSockets'
                              THEN Append(chanDown[t], PresenceUpdate(filteredUsers))
                              ELSE chanDown[t]]
    /\ chanUp' = [chanUp EXCEPT ![c] = Tail(@)]
    /\ UNCHANGED <<auxVars, rcVars, clientVars, ghostVars>>

\* socket.on("element-update"): socket.to(roomId).emit
ServerElementUpdate(c) ==
    /\ connected[c]
    /\ chanUp[c] # << >>
    /\ Head(chanUp[c]).type = "element-update"
    /\ chanDown' = [t \in Clients |->
                       IF t \in SocketToRoom(c)
                       THEN Append(chanDown[t], Head(chanUp[c]))
                       ELSE chanDown[t]]
    /\ chanUp' = [chanUp EXCEPT ![c] = Tail(@)]
    /\ UNCHANGED <<auxVars, rcVars, clientVars, roomSockets, roomUsers, ghostVars>>

(***************************************************************************)
(* Spec: the room.  Two clients and the server; nobody selects, and the    *)
(* debounce timers are left running.                                       *)
(***************************************************************************)
Next ==
    \E c \in Clients :
        \/ \E id \in Ids : LocalEdit(c, id)
        \/ CanvasChange(c)
        \/ ThrottleTimer(c)
        \/ Frame(c)
        \/ Connect(c)
        \/ ClientElementUpdate(c)
        \/ ClientPresenceUpdate(c)
        \/ ServerJoinRoom(c)
        \/ ServerElementUpdate(c)

Spec == Init /\ [][Next]_vars

\* the event loops go on: a frame is rendered, a message that arrived is handled
Fairness ==
    \A c \in Clients :
        /\ WF_vars(Frame(c))
        /\ WF_vars(ClientElementUpdate(c))
        /\ WF_vars(ClientPresenceUpdate(c))
        /\ WF_vars(ServerJoinRoom(c))
        /\ WF_vars(ServerElementUpdate(c))

SpecLive == Spec /\ Fairness

(***************************************************************************)
(* SpecView: one SharedView (B) in full, with selection and the debounce   *)
(* timer.  Its peer is the environment: the server relays whatever a peer  *)
(* emits, so any batch of elements (one per id) may arrive.                *)
(***************************************************************************)
PeerElements ==
    {[id |-> i, version |-> v, versionNonce |-> NonceOf("A"), isDeleted |-> FALSE] :
        i \in Ids, v \in 1..MaxPeerVersion}

PeerBatches == {s \in SeqsUpTo(PeerElements, Cardinality(Ids)) : s # << >> /\ DistinctIds(s)}

\* the server relays an element-update of the peer to B
PeerUpdate ==
    /\ peerSent < MaxPeerUpdates
    /\ "B" \in roomSockets
    /\ peerSent' = peerSent + 1
    /\ \E batch \in PeerBatches :
          chanDown' = [chanDown EXCEPT !["B"] = Append(@, ElementUpdate("A", batch))]
    /\ UNCHANGED <<auxVars, rcVars, clientVars, chanUp, roomSockets, roomUsers, storeCalls,
                   excluded, lastDrain, edits>>

ViewNext ==
    \/ \E id \in Ids : LocalEdit("B", id)
    \/ \E id \in Ids : Select("B", id)
    \/ CanvasChange("B")
    \/ ThrottleTimer("B")
    \/ DebounceTimer("B")
    \/ Frame("B")
    \/ Connect("B")
    \/ ClientElementUpdate("B")
    \/ ClientPresenceUpdate("B")
    \/ ServerJoinRoom("B")
    \/ ServerElementUpdate("B")
    \/ PeerUpdate

SpecView == Init /\ [][ViewNext]_vars

(***************************************************************************)
(* SpecServer: io.on("connection") with several rooms.  Every handler sets *)
(* `emitted` to what it sends, one copy per receiving socket.              *)
(***************************************************************************)
\* io.on("connection")
OnConnection(s) ==
    /\ s \notin sockets
    /\ sockets' = sockets \cup {s}
    /\ emitted' = {}
    /\ srvEvent' = Event("connection")
    /\ UNCHANGED <<socketRooms, roomUsersMap, drawingVersion>>
    /\ UNCHANGED <<rcVars, roomVars, cursorVars, thrTimeVars, hcLast, viewVars>>

SrvConnect(s) == OnConnection(s) /\ UNCHANGED moreVars

\* mutant: join-room keeps every entry of the list
AllUsers(users, id) == users

\* currentUsers.filter((u) => u.id !== user.id)
FilterUsers(users, id) == SelectSeq(users, LAMBDA u : u.id # id)

\* mutant: the roster goes to the others only
RoomButJoiner(s, d) == socketRooms[d] \ {s}

\* io.to(roomId) after socket.join(roomId): the room with the joining socket
RoomWithJoiner(s, d) == socketRooms[d] \cup {s}

\* socket.on("join-room")
OnJoinRoom(s, d, user) ==
    /\ s \in sockets
    /\ LET newUser == [id |-> user, socketId |-> s, isActive |-> TRUE]
           filteredUsers ==
               Append(FilterUsers(CurrentUsers(d), user), newUser)
       IN  /\ socketRooms' = [socketRooms EXCEPT ![d] = @ \cup {s}]
           /\ roomUsersMap' = MapSet(roomUsersMap, d, filteredUsers)
           /\ emitted' = EmitTo(RoomWithJoiner(s, d),
                                Msg("presence-update", d, "", filteredUsers))
    /\ srvEvent' = Event("join-room")
    /\ UNCHANGED <<sockets, drawingVersion>>
    /\ UNCHANGED <<rcVars, roomVars, cursorVars, thrTimeVars, hcLast, viewVars>>

SrvJoinRoom(s, d, user) == OnJoinRoom(s, d, user) /\ UNCHANGED moreVars

\* mutant: the relay reaches the sender as well
IoTo(s, d) == socketRooms[d]

\* socket.to(roomId): the sockets of the room but the sender
SocketTo(s, d) == socketRooms[d] \ {s}

\* socket.on("cursor-move"): volatile, so a copy may be lost
SrvCursorMove(s, d) ==
    /\ s \in sockets
    /\ \E reached \in SUBSET SocketTo(s, d) :
          emitted' = EmitTo(reached, Msg("cursor-move", d, s, << >>))
    /\ srvEvent' = Event("cursor-move")
    /\ UNCHANGED <<sockets, socketRooms, roomUsersMap, drawingVersion>>
    /\ UNCHANGED <<rcVars, roomVars, cursorVars, thrTimeVars, hcLast, viewVars, moreVars>>

\* socket.on("element-update")
SrvElementUpdate(s, d) ==
    /\ s \in sockets
    /\ emitted' = EmitTo(SocketTo(s, d), Msg("element-update", d, s, << >>))
    /\ srvEvent' = Event("element-update")
    /\ UNCHANGED <<sockets, socketRooms, roomUsersMap, drawingVersion>>
    /\ UNCHANGED <<rcVars, roomVars, cursorVars, thrTimeVars, hcLast, viewVars, moreVars>>

\* socket.on("user-activity")
SrvUserActivity(s, d, isActive) ==
    /\ s \in sockets
    /\ LET users == CurrentUsers(d)
           index == FindIndex(users, s)
           updated == [users EXCEPT ![index].isActive = isActive]
       IN  IF d \in DOMAIN roomUsersMap /\ index # 0
           THEN /\ roomUsersMap' = MapSet(roomUsersMap, d, updated)
                /\ emitted' = EmitTo(socketRooms[d], Msg("presence-update", d, "", updated))
           ELSE /\ emitted' = {}
                /\ UNCHANGED roomUsersMap
    /\ srvEvent' = Event("user-activity")
    /\ UNCHANGED <<sockets, socketRooms, drawingVersion>>
    /\ UNCHANGED <<rcVars, roomVars, cursorVars, thrTimeVars, hcLast, viewVars, moreVars>>

\* the rooms whose list holds an entry of the socket
RoomsHolding(s) == {d \in DOMAIN roomUsersMap : FindIndex(roomUsersMap[d], s) # 0}

\* socket.on("disconnect"): the socket has left its rooms when it runs
OnDisconnect(s) ==
    /\ s \in sockets
    /\ sockets' = sockets \ {s}
    /\ socketRooms' = [d \in Rooms |-> socketRooms[d] \ {s}]
    /\ roomUsersMap' =
          [d \in DOMAIN roomUsersMap |->
              IF d \in RoomsHolding(s)
              THEN Splice(roomUsersMap[d], FindIndex(roomUsersMap[d], s))
              ELSE roomUsersMap[d]]
    /\ emitted' =
          UNION {EmitTo(socketRooms'[d], Msg("presence-update", d, "", roomUsersMap'[d])) :
                    d \in RoomsHolding(s)}
    /\ srvEvent' = Event("disconnect")
    /\ UNCHANGED drawingVersion
    /\ UNCHANGED <<rcVars, roomVars, cursorVars, thrTimeVars, hcLast, viewVars>>

SrvDisconnect(s) == OnDisconnect(s) /\ UNCHANGED moreVars

\* the updates stored so far
RECURSIVE StoreUpdates(_)
StoreUpdates(ds) ==
    IF ds = {} THEN 0
    ELSE LET d == CHOOSE r \in ds : TRUE
         IN  (drawingVersion[d] - InitialVersion) + StoreUpdates(ds \ {d})

\* PUT /shared/:token through an active edit link of the drawing
SrvPutShared(d) ==
    /\ StoreUpdates(Rooms) < MaxStoreUpdates
    /\ drawingVersion' = [drawingVersion EXCEPT ![d] = @ + 1]
    /\ emitted' = {}
    /\ srvEvent' = Event("put-shared")
    /\ UNCHANGED <<sockets, socketRooms, roomUsersMap>>
    /\ UNCHANGED <<rcVars, roomVars, cursorVars, thrTimeVars, hcLast, viewVars, moreVars>>

SrvNext ==
    \/ \E s \in Sockets : SrvConnect(s)
    \/ \E s \in Sockets : \E d \in Opens(s), user \in Identities(s) : SrvJoinRoom(s, d, user)
    \/ \E s \in Sockets, d \in Rooms : SrvCursorMove(s, d)
    \/ \E s \in Sockets, d \in Rooms : SrvElementUpdate(s, d)
    \/ \E s \in Sockets, d \in Rooms, isActive \in BOOLEAN : SrvUserActivity(s, d, isActive)
    \/ \E s \in Sockets : SrvDisconnect(s)
    \/ \E d \in Rooms : SrvPutShared(d)

\* the server is up, no socket has connected; the clients' side is left alone
SrvInit ==
    /\ RoomIdle
    /\ RcIdle
    /\ SrvStart
    /\ CursorStart

SpecServer == SrvInit /\ [][SrvNext]_vars

\* SpecPresence: the handlers that read or write roomUsers
PresenceNext ==
    \/ \E s \in Sockets : SrvConnect(s)
    \/ \E s \in Sockets : \E d \in Opens(s), user \in Identities(s) : SrvJoinRoom(s, d, user)
    \/ \E s \in Sockets, d \in Rooms, isActive \in BOOLEAN : SrvUserActivity(s, d, isActive)
    \/ \E s \in Sockets : SrvDisconnect(s)

SpecPresence == SrvInit /\ [][PresenceNext]_vars

(***************************************************************************)
(* SpecCursor: onPointerUpdate of one SharedView against the clock.        *)
(***************************************************************************)
\* the interval of the cursor throttle, ms
CursorInterval == 33

\* mutant: every pointer event is emitted
CursorDueAlways == TRUE

\* onPointerUpdate: now - lastCursorEmit.current > 33 (the socket exists)
CursorDue == now - lastCursorEmit > CursorInterval

\* a millisecond passes
Tick ==
    /\ now < StartTime + MaxTime
    /\ now' = now + 1
    /\ UNCHANGED <<lastCursorEmit, cursorSent>>
    /\ UNCHANGED <<rcVars, roomVars, srvVars, thrTimeVars, hcLast, viewVars, moreVars>>

\* onPointerUpdate(payload): the pointer is where it is at the event
onPointerUpdate ==
    /\ IF CursorDue
       THEN /\ cursorSent' = Append(cursorSent, [at |-> now, pointer |-> now])
            /\ lastCursorEmit' = now
       ELSE UNCHANGED <<cursorSent, lastCursorEmit>>
    /\ UNCHANGED now
    /\ UNCHANGED <<rcVars, roomVars, srvVars, thrTimeVars, hcLast, viewVars, moreVars>>

CursorNext == Tick \/ onPointerUpdate

SpecCursor == SrvInit /\ [][CursorNext]_vars

(***************************************************************************)
(* SpecThrottle: broadcastChanges of one editing SharedView (A) against    *)
(* the clock.  throttle(f, 50, {leading, trailing}) is lodash's debounce   *)
(* with maxWait = wait: shouldInvoke, leadingEdge, timerExpired,           *)
(* trailingEdge and remainingWait are its functions.  No remote update     *)
(* arrives, so isSyncing stays false.                                      *)
(***************************************************************************)
\* the wait of the throttle, ms
ThrottleWait == 50

\* mutant: every call is invoked at once
ShouldInvokeAlways == TRUE

Min(a, b) == IF a < b THEN a ELSE b

\* shouldInvoke(time), maxing
ShouldInvoke ==
    \/ thrLastCallTime = NoTime
    \/ now - thrLastCallTime >= ThrottleWait
    \/ now - thrLastInvokeTime >= ThrottleWait

\* remainingWait(time), maxing
RemainingWait ==
    Min(ThrottleWait - (now - thrLastCallTime), ThrottleWait - (now - thrLastInvokeTime))

\* time passes up to the next point of the grid, or to the expiry of the
\* timer when that comes first
ThrottleTick ==
    /\ now < StartTime + MaxTime
    /\ thrTimerAt # now
    /\ now' = IF thrTimerAt # NoTime /\ thrTimerAt < now + TimeGrid
              THEN thrTimerAt
              ELSE now + TimeGrid
    /\ UNCHANGED <<lastCursorEmit, cursorSent>>
    /\ UNCHANGED <<rcVars, roomVars, srvVars, thrTimeVars, hcLast, viewVars, moreVars>>

\* what an invocation of the throttled function adds to the messages sent
SentAfter(c) ==
    IF chanUp'[c] # chanUp[c]
    THEN Append(elementSent,
                [at |-> now, elements |-> chanUp'[c][Len(chanUp'[c])].elements])
    ELSE elementSent

\* a call of the throttled broadcastChanges at `now`: invoked at once when
\* shouldInvoke says so (leadingEdge, or the maxWait branch while the timer
\* runs), else held for the timer
TimedBroadcastChanges(c, elements) ==
    /\ thrLastCallTime' = now
    /\ IF ShouldInvoke
       THEN /\ thrLastInvokeTime' = now
            /\ thrTimerAt' = now + ThrottleWait
            /\ thrOpen' = [thrOpen EXCEPT ![c] = TRUE]
            /\ thrArmed' = [thrArmed EXCEPT ![c] = FALSE]
            /\ thrArgs' = [thrArgs EXCEPT ![c] = << >>]
            /\ BroadcastInvoke(c, elements)
       ELSE /\ thrArmed' = [thrArmed EXCEPT ![c] = TRUE]
            /\ thrArgs' = [thrArgs EXCEPT ![c] = elements]
            /\ thrOpen' = [thrOpen EXCEPT ![c] = TRUE]
            /\ thrTimerAt' = IF thrOpen[c] THEN thrTimerAt ELSE now + ThrottleWait
            /\ UNCHANGED <<thrLastInvokeTime, elementVersionMap, chanUp>>
    /\ elementSent' = SentAfter(c)

\* handleCanvasChange at `now` (isSyncing is false)
TimedCanvasChange(c, allElements) ==
    /\ ~isSyncing[c]
    /\ MayEdit(c)
    /\ saveArmed' = [saveArmed EXCEPT ![c] = TRUE]
    /\ saveArgs' = [saveArgs EXCEPT ![c] = allElements]
    /\ TimedBroadcastChanges(c, allElements)

\* the user edits an element at `now`
TimedLocalEdit(c, id) ==
    /\ edits < MaxTimedEdits
    /\ edits' = edits + 1
    /\ scene' = [scene EXCEPT ![c] = Replaced(@, Edited(c, id))]
    /\ TimedCanvasChange(c, scene'[c])
    /\ UNCHANGED <<permission, selected, isSyncing, elementUpdateBuffer, peers,
                   connected, chanDown, roomSockets, roomUsers, storeCalls,
                   excluded, lastDrain, peerSent>>
    /\ UNCHANGED <<rcVars, srvVars, cursorVars, hcLast, viewVars, moreVars>>

\* onChange without an edit at `now`
TimedOnChange(c) ==
    /\ TimedCanvasChange(c, scene[c])
    /\ UNCHANGED <<permission, scene, selected, isSyncing, elementUpdateBuffer,
                   peers, connected, chanDown, roomSockets, roomUsers, ghostVars>>
    /\ UNCHANGED <<rcVars, srvVars, cursorVars, hcLast, viewVars, moreVars>>

\* timerExpired: trailingEdge when shouldInvoke says so, else the timer is
\* set again for the remaining wait
TimerExpired(c) ==
    /\ thrOpen[c]
    /\ thrTimerAt = now
    /\ IF ShouldInvoke
       THEN /\ thrOpen' = [thrOpen EXCEPT ![c] = FALSE]
            /\ thrTimerAt' = NoTime
            /\ thrArmed' = [thrArmed EXCEPT ![c] = FALSE]
            /\ thrArgs' = [thrArgs EXCEPT ![c] = << >>]
            /\ IF thrArmed[c]
               THEN /\ thrLastInvokeTime' = now
                    /\ BroadcastInvoke(c, thrArgs[c])
               ELSE UNCHANGED <<thrLastInvokeTime, elementVersionMap, chanUp>>
       ELSE /\ thrTimerAt' = now + RemainingWait
            /\ UNCHANGED <<thrOpen, thrArmed, thrArgs, thrLastInvokeTime,
                           elementVersionMap, chanUp>>
    /\ elementSent' = SentAfter(c)
    /\ UNCHANGED thrLastCallTime
    /\ UNCHANGED <<permission, scene, selected, isSyncing, elementUpdateBuffer,
                   saveArmed, saveArgs, peers, connected, chanDown, roomSockets,
                   roomUsers, ghostVars>>
    /\ UNCHANGED <<rcVars, srvVars, cursorVars, hcLast, viewVars, moreVars>>

ThrottleNext ==
    \/ ThrottleTick
    \/ \E id \in Ids : TimedLocalEdit("A", id)
    \/ TimedOnChange("A")
    \/ TimerExpired("A")

SpecThrottle == SrvInit /\ [][ThrottleNext]_vars

(***************************************************************************)
(* SpecRender and SpecSession: B's SharedView fed by its peers.  Under     *)
(* SpecSession B edits too and the component is torn down at any moment.   *)
(***************************************************************************)
\* the server relays a cursor-move of peer u to B
PeerCursorFrom(u, p) ==
    /\ peerCursors < MaxPeerCursors
    /\ "B" \in roomSockets
    /\ peerCursors' = peerCursors + 1
    /\ chanDown' = [chanDown EXCEPT !["B"] = Append(@, CursorMove(u, p))]
    /\ UNCHANGED <<otherVars, rcVars, clientVars, chanUp, roomSockets, roomUsers,
                   ghostVars, cursorBuffer, collaborators, tickUpdates,
                   frameRequested, listening, mounted>>

\* mutant: the clean-up leaves the requested frame alone
KeepFrame(c) == frameRequested

\* cancelAnimationFrame(animationFrameId.current)
CancelFrame(c) == [frameRequested EXCEPT ![c] = FALSE]

\* the component unmounts: both clean-ups run, one after the other
Teardown(c) ==
    /\ mounted[c]
    /\ mounted' = [mounted EXCEPT ![c] = FALSE]
    \* debouncedSave.cancel()
    /\ saveArmed' = [saveArmed EXCEPT ![c] = FALSE]
    /\ saveArgs' = [saveArgs EXCEPT ![c] = << >>]
    \* broadcastChanges.cancel()
    /\ thrOpen' = [thrOpen EXCEPT ![c] = FALSE]
    /\ thrArmed' = [thrArmed EXCEPT ![c] = FALSE]
    /\ thrArgs' = [thrArgs EXCEPT ![c] = << >>]
    /\ IF c = "A"
       THEN /\ thrLastCallTime' = NoTime
            /\ thrLastInvokeTime' = 0
            /\ thrTimerAt' = NoTime
       ELSE UNCHANGED <<thrLastCallTime, thrLastInvokeTime, thrTimerAt>>
    \* socket.off(...) for the five events, socket.disconnect()
    /\ listening' = [listening EXCEPT ![c] = FALSE]
    /\ connected' = [connected EXCEPT ![c] = FALSE]
    /\ frameRequested' = CancelFrame(c)
    /\ UNCHANGED <<rcVars, srvVars, cursorVars, elementSent, hcLast, moreVars, permission, scene,
                   selected, isSyncing, elementVersionMap, elementUpdateBuffer, peers,
                   netVars, ghostVars, cursorBuffer, collaborators, tickUpdates,
                   peerCursors>>

PeerCursor == \E u \in UserIds \ {"B"}, p \in Pointers : PeerCursorFrom(u, p)

\* SpecRender: B's render loop fed by the peers; B selects, but edits nothing
RenderNext ==
    \/ \E id \in Ids : Select("B", id)
    \/ Frame("B")
    \/ Connect("B")
    \/ ClientElementUpdate("B")
    \/ ClientPresenceUpdate("B")
    \/ ClientCursorMove("B")
    \/ ServerJoinRoom("B")
    \/ PeerUpdate
    \/ PeerCursor

SpecRender == SrvInit /\ [][RenderNext]_vars

SessionNext ==
    \/ \E id \in Ids : LocalEdit("B", id)
    \/ CanvasChange("B")
    \/ ThrottleTimer("B")
    \/ DebounceTimer("B")
    \/ Frame("B")
    \/ Connect("B")
    \/ ClientElementUpdate("B")
    \/ ClientPresenceUpdate("B")
    \/ ClientCursorMove("B")
    \/ ServerJoinRoom("B")
    \/ ServerElementUpdate("B")
    \/ PeerUpdate
    \/ PeerCursorFrom("A", "p1")
    \/ Teardown("B")

SpecSession == SrvInit /\ [][SessionNext]_vars

(***************************************************************************)
(* SpecRejoin: the SharedViews of two users on drawing d1.  A connection   *)
(* drops at any moment and the server restarts, losing sockets and rooms;  *)
(* socket.io re-establishes a lost connection under a new socket id.  The  *)
(* server handles the disconnect of a lost socket some time after the      *)
(* client saw the drop.  A join-room still on its way when the connection  *)
(* drops is lost with it.                                                  *)
(***************************************************************************)
\* a socket id nothing refers to any more: socket ids are never used twice
FreshSocket(s) ==
    /\ s \notin sockets
    /\ s \notin pendingJoin
    /\ \A u \in RejoinUsers : cliSocket[u] # s
    /\ \A d \in DOMAIN roomUsersMap : FindIndex(roomUsersMap[d], s) = 0

\* mutant: the connect handler emits nothing
OnConnectNothing(s) == {}

\* socket.on('connect'): socket.emit('join-room', { drawingId, user: me })
OnConnectEmit(s) == {s}

\* the connection of u's SharedView is established (the first time or again)
ClientConnect(u) ==
    /\ cliSocket[u] = NoSocket
    /\ \E s \in Sockets :
          /\ FreshSocket(s)
          /\ OnConnection(s)
          /\ cliSocket' = [cliSocket EXCEPT ![u] = s]
          /\ pendingJoin' = pendingJoin \cup OnConnectEmit(s)
    /\ UNCHANGED <<drops, storeVars, orderVars>>

\* the server handles the join-room of u's SharedView
ClientJoinHandled(u) ==
    /\ cliSocket[u] \in pendingJoin
    /\ OnJoinRoom(cliSocket[u], "d1", u)
    /\ pendingJoin' = pendingJoin \ {cliSocket[u]}
    /\ UNCHANGED <<cliSocket, drops, storeVars, orderVars>>

\* u's connection drops: the client sees it first
ConnectionDrop(u) ==
    /\ drops < MaxDrops
    /\ cliSocket[u] # NoSocket
    /\ drops' = drops + 1
    /\ cliSocket' = [cliSocket EXCEPT ![u] = NoSocket]
    /\ pendingJoin' = pendingJoin \ {cliSocket[u]}
    /\ UNCHANGED <<srvVars, rcVars, roomVars, cursorVars, thrTimeVars, hcLast, viewVars,
                   storeVars, orderVars>>

\* the server handles the disconnect of a socket its client has lost
LateDisconnect(s) ==
    /\ \A u \in RejoinUsers : cliSocket[u] # s
    /\ OnDisconnect(s)
    /\ UNCHANGED <<rejoinVars, storeVars, orderVars>>

\* the server process restarts: roomUsers is a new Map, every connection is lost
ServerRestart ==
    /\ drops < MaxDrops
    /\ drops' = drops + 1
    /\ sockets' = {}
    /\ socketRooms' = [d \in Rooms |-> {}]
    /\ roomUsersMap' = [d \in {} |-> << >>]
    /\ emitted' = {}
    /\ srvEvent' = Event("restart")
    /\ cliSocket' = [u \in RejoinUsers |-> NoSocket]
    /\ pendingJoin' = {}
    /\ UNCHANGED <<drawingVersion, rcVars, roomVars, cursorVars, thrTimeVars, hcLast,
                   viewVars, storeVars, orderVars>>

RejoinNext ==
    \/ \E u \in RejoinUsers : ClientConnect(u)
    \/ \E u \in RejoinUsers : ClientJoinHandled(u)
    \/ \E u \in RejoinUsers : ConnectionDrop(u)
    \/ \E s \in Sockets : LateDisconnect(s)
    \/ ServerRestart

\* socket.io reconnects by itself; the server handles what it receives
RejoinFairness ==
    /\ \A u \in RejoinUsers : WF_vars(ClientConnect(u))
    /\ \A u \in RejoinUsers : WF_vars(ClientJoinHandled(u))
    /\ \A s \in Sockets : WF_vars(LateDisconnect(s))

SpecRejoin == SrvInit /\ [][RejoinNext]_vars /\ RejoinFairness

(***************************************************************************)
(* SpecStore: the REST routes that write drawing d1 and its share link.    *)
(* Every handler runs up to its first await and goes on after the database *)
(* has answered, so the handlers of several requests interleave at their   *)
(* database calls.                                                         *)
(***************************************************************************)
\* mutant: the update writes the version the writer held, plus one
VersionFromHeld(version, held) == held + 1

\* prisma.drawing.update({ data: { version: { increment: 1 } } })
IncrementVersion(version, held) == version + 1

StoreUnchanged ==
    UNCHANGED <<rcVars, roomVars, cursorVars, thrTimeVars, hcLast, viewVars, rejoinVars,
                orderVars, sockets, socketRooms, roomUsersMap, emitted, srvEvent>>

\* the request is answered
Respond(r, kind, status) ==
    reqs' = [reqs EXCEPT ![r] = [@ EXCEPT !.kind = kind, !.pc = "done", !.status = status]]

\* the request goes on to its database write
GoOn(r, kind, held, data) ==
    reqs' = [reqs EXCEPT ![r] = [kind |-> kind, pc |-> "checked", status |-> 0,
                                 held |-> held, data |-> data]]

\* prisma.drawing.update of request r: version and content in one statement
DrawingUpdate(r) ==
    /\ drawingVersion' =
          [drawingVersion EXCEPT !["d1"] = IncrementVersion(@, reqs[r].held)]
    /\ content' = r

\* invalidateDrawingsCache(): drawingsCache.clear()
invalidateDrawingsCache == drawingsCache' = NoCacheEntry

\* PUT /drawings/:id up to the update: the ownership check.  The writer
\* holds a version it has loaded before (held), which the handler ignores
PutDrawingFind(r, owner, held) ==
    /\ reqs[r].pc = "idle"
    /\ IF owner
       THEN GoOn(r, "owner", held, NoRequest.data)
       ELSE Respond(r, "owner", 404)
    /\ UNCHANGED <<link, content, drawingVersion, drawingsCache>>
    /\ StoreUnchanged

\* PUT /drawings/:id: prisma.drawing.update and the answer
PutDrawingUpdate(r) ==
    /\ reqs[r].pc = "checked"
    /\ reqs[r].kind = "owner"
    /\ DrawingUpdate(r)
    /\ invalidateDrawingsCache
    /\ Respond(r, "owner", 200)
    /\ UNCHANGED link
    /\ StoreUnchanged

\* PUT /shared/:token: the status the checks of the link end with (0: none)
GateStatus(l) ==
    IF ~l.isActive THEN 403
    ELSE IF l.expired THEN 403
    ELSE IF l.permission # "edit" THEN 403
    ELSE 0

\* PUT /shared/:token up to the update: findUnique and the checks
PutSharedFind(r, known, held) ==
    /\ reqs[r].pc = "idle"
    /\ IF ~known THEN Respond(r, "shared", 404)
       ELSE IF GateStatus(link) # 0 THEN Respond(r, "shared", GateStatus(link))
       ELSE GoOn(r, "shared", held, NoRequest.data)
    /\ UNCHANGED <<link, content, drawingVersion, drawingsCache>>
    /\ StoreUnchanged

\* PUT /shared/:token: prisma.drawing.update and the answer
PutSharedUpdate(r) ==
    /\ reqs[r].pc = "checked"
    /\ reqs[r].kind = "shared"
    /\ DrawingUpdate(r)
    /\ invalidateDrawingsCache
    /\ Respond(r, "shared", 200)
    /\ UNCHANGED link
    /\ StoreUnchanged

\* PUT /share-links/:linkId of the link's creator up to the update
PutShareLinkFind(r, isActive, newPermission) ==
    /\ reqs[r].pc = "idle"
    /\ GoOn(r, "link", 0, [isActive |-> isActive, permission |-> newPermission])
    /\ UNCHANGED <<link, content, drawingVersion, drawingsCache>>
    /\ StoreUnchanged

\* PUT /share-links/:linkId: prisma.shareLink.update and the answer
PutShareLinkUpdate(r) ==
    /\ reqs[r].pc = "checked"
    /\ reqs[r].kind = "link"
    /\ link' = [link EXCEPT !.isActive = reqs[r].data.isActive,
                            !.permission = reqs[r].data.permission]
    /\ Respond(r, "link", 200)
    /\ UNCHANGED <<content, drawingVersion, drawingsCache>>
    /\ StoreUnchanged

\* the clock passes link.expiresAt
LinkExpires ==
    /\ ~link.expired
    /\ link' = [link EXCEPT !.expired = TRUE]
    /\ UNCHANGED <<content, reqs, drawingVersion, drawingsCache>>
    /\ StoreUnchanged

StoreNext ==
    \/ \E r \in ReqIds, owner \in BOOLEAN :
          \E held \in InitialVersion..drawingVersion["d1"] : PutDrawingFind(r, owner, held)
    \/ \E r \in ReqIds : PutDrawingUpdate(r)
    \/ \E r \in ReqIds, known \in BOOLEAN :
          \E held \in InitialVersion..drawingVersion["d1"] : PutSharedFind(r, known, held)
    \/ \E r \in ReqIds : PutSharedUpdate(r)
    \/ \E r \in ReqIds, isActive \in BOOLEAN, newPermission \in {"view", "edit"} :
          PutShareLinkFind(r, isActive, newPermission)
    \/ \E r \in ReqIds : PutShareLinkUpdate(r)
    \/ LinkExpires

SpecStore == SrvInit /\ [][StoreNext]_vars

(***************************************************************************)
(* SpecCache: GET /drawings with its response cache, next to the owner's    *)
(* PUT /drawings/:id.  A list request is a request of kind "list"; held is *)
(* the version of d1 that the body it reads, stores or sends shows.  All   *)
(* list requests here build the same cache key.                            *)
(***************************************************************************)
\* GET /drawings up to the first await: getCachedDrawingsBody(cacheKey); a
\* hit is answered at once, a miss goes on to prisma.drawing.findMany
ListLookup(q) ==
    /\ reqs[q].pc = "idle"
    /\ reqs' = [reqs EXCEPT ![q] =
                  IF drawingsCache # NoCacheEntry
                  THEN [@ EXCEPT !.kind = "list", !.pc = "done", !.status = 200,
                                 !.held = drawingsCache]
                  ELSE [@ EXCEPT !.kind = "list", !.pc = "miss"]]
    /\ UNCHANGED <<link, content, drawingVersion, drawingsCache>>
    /\ StoreUnchanged

\* prisma.drawing.findMany reads the database
ListFindMany(q) ==
    /\ reqs[q].pc = "miss"
    /\ reqs[q].kind = "list"
    /\ reqs' = [reqs EXCEPT ![q] = [@ EXCEPT !.pc = "read", !.held = drawingVersion["d1"]]]
    /\ UNCHANGED <<link, content, drawingVersion, drawingsCache>>
    /\ StoreUnchanged

\* GET /drawings after the await: cacheDrawingsResponse(cacheKey, payload)
\* and the answer
ListCacheAndSend(q) ==
    /\ reqs[q].pc = "read"
    /\ reqs[q].kind = "list"
    /\ drawingsCache' = reqs[q].held
    /\ reqs' = [reqs EXCEPT ![q] = [@ EXCEPT !.pc = "done", !.status = 200]]
    /\ UNCHANGED <<link, content, drawingVersion>>
    /\ StoreUnchanged

\* Date.now() passes entry.expiresAt: the entry is dropped by the next
\* lookup or by the sweeper
CacheExpires ==
    /\ drawingsCache # NoCacheEntry
    /\ drawingsCache' = NoCacheEntry
    /\ UNCHANGED <<link, content, reqs, drawingVersion>>
    /\ StoreUnchanged

CacheNext ==
    \/ \E r \in ReqIds : PutDrawingFind(r, TRUE, drawingVersion["d1"])
    \/ \E r \in ReqIds : PutDrawingUpdate(r)
    \/ \E q \in ReqIds : ListLookup(q)
    \/ \E q \in ReqIds : ListFindMany(q)
    \/ \E q \in ReqIds : ListCacheAndSend(q)
    \/ CacheExpires

SpecCache == SrvInit /\ [][CacheNext]_vars

(***************************************************************************)
(* SpecJoined: the room once A and B, both editing, have connected and     *)
(* joined and have handled the rosters; from here on they edit, emit and   *)
(* apply each other's updates.                                             *)
(***************************************************************************)
\* the roster after A's and then B's join-room
JoinedUsers ==
    << [id |-> "A", socketId |-> "A", isActive |-> TRUE],
       [id |-> "B", socketId |-> "B", isActive |-> TRUE] >>

JoinedInit ==
    /\ permission = [c \in Clients |-> "edit"]
    /\ scene = [c \in Clients |-> InitialDrawing]
    /\ selected = [c \in Clients |-> {}]
    /\ isSyncing = [c \in Clients |-> FALSE]
    /\ elementVersionMap =
          [c \in Clients |-> recordAll([id \in Ids |-> NoEntry], InitialDrawing)]
    /\ elementUpdateBuffer = [c \in Clients |-> << >>]
    /\ saveArmed = [c \in Clients |-> FALSE]
    /\ saveArgs = [c \in Clients |-> << >>]
    /\ thrOpen = [c \in Clients |-> FALSE]
    /\ thrArmed = [c \in Clients |-> FALSE]
    /\ thrArgs = [c \in Clients |-> << >>]
    /\ peers = [c \in Clients |-> Clients \ {c}]
    /\ connected = [c \in Clients |-> TRUE]
    /\ chanUp = [c \in Clients |-> << >>]
    /\ chanDown = [c \in Clients |-> << >>]
    /\ roomSockets = Clients
    /\ roomUsers = JoinedUsers
    /\ storeCalls = [c \in Clients |-> << >>]
    /\ excluded = [c \in Clients |-> << >>]
    /\ lastDrain = [c \in Clients |-> 0]
    /\ edits = 0
    /\ peerSent = 0
    /\ RcIdle
    /\ SrvStart
    /\ CursorStart

JoinedNext ==
    \E c \in Clients :
        \/ \E id \in Ids : LocalEdit(c, id)
        \/ CanvasChange(c)
        \/ ThrottleTimer(c)
        \/ Frame(c)
        \/ ClientElementUpdate(c)
        \/ ServerElementUpdate(c)

\* the render loop keeps ticking, the sockets deliver, the throttle's timer
\* expires
JoinedFairness ==
    \A c \in Clients :
        /\ WF_vars(Frame(c))
        /\ WF_vars(ClientElementUpdate(c))
        /\ WF_vars(ServerElementUpdate(c))
        /\ WF_vars(ThrottleTimer(c))

SpecJoined == JoinedInit /\ [][JoinedNext]_vars /\ JoinedFairness

(***************************************************************************)
(* SpecEmit: B, joined and editing, with a peer's updates coming in.  The  *)
(* server is not taking B's messages here, so chanUp["B"] is all that B    *)
(* has emitted, in order.                                                  *)
(***************************************************************************)
EmitNext ==
    \/ \E id \in Ids : LocalEdit("B", id)
    \/ CanvasChange("B")
    \/ ThrottleTimer("B")
    \/ Frame("B")
    \/ ClientElementUpdate("B")
    \/ PeerUpdate

SpecEmit == JoinedInit /\ [][EmitNext]_vars

\* B's render loop keeps ticking, its socket delivers, its throttle's timer
\* expires; nothing makes the user or Excalidraw raise another onChange
EmitFairness ==
    /\ WF_vars(Frame("B"))
    /\ WF_vars(ClientElementUpdate("B"))
    /\ WF_vars(ThrottleTimer("B"))

SpecEmitLive == SpecEmit /\ EmitFairness

(***************************************************************************)
(* SpecDrain: B's element buffer between two ticks.  The server relays     *)
(* whatever the peers emit, in any order, so several batches that carry    *)
(* the same id at higher, equal or lower versions may be buffered before   *)
(* the render loop runs.                                                   *)
(***************************************************************************)
\* the server relays another element-update of a peer to B
PeerUpdateAgain ==
    /\ peerSent < MaxDrainUpdates
    /\ "B" \in roomSockets
    /\ peerSent' = peerSent + 1
    /\ \E batch \in PeerBatches :
          chanDown' = [chanDown EXCEPT !["B"] = Append(@, ElementUpdate("A", batch))]
    /\ UNCHANGED <<auxVars, rcVars, clientVars, chanUp, roomSockets, roomUsers, storeCalls,
                   excluded, lastDrain, edits>>

DrainNext ==
    \/ \E id \in Ids : Select("B", id)
    \/ ClientElementUpdate("B")
    \/ Frame("B")
    \/ PeerUpdateAgain

SpecDrain == JoinedInit /\ [][DrainNext]_vars

(***************************************************************************)
(* SpecDepart: A and B have joined; A moves its pointer and then leaves     *)
(* (its socket disconnects), B goes on rendering.                          *)
(***************************************************************************)
\* socket.on("disconnect") for the socket of c: the first entry of the
\* socket is spliced out and the sockets left in the room get the list
ServerDisconnect(c) ==
    /\ connected[c]
    /\ c \in roomSockets
    /\ connected' = [connected EXCEPT ![c] = FALSE]
    /\ roomSockets' = roomSockets \ {c}
    /\ LET index == FindIndex(roomUsers, c) IN
          IF index # 0
          THEN /\ roomUsers' = Splice(roomUsers, index)
               /\ chanDown' = [t \in Clients |->
                                  IF t \in roomSockets'
                                  THEN Append(chanDown[t], PresenceUpdate(roomUsers'))
                                  ELSE chanDown[t]]
          ELSE UNCHANGED <<roomUsers, chanDown>>
    /\ UNCHANGED <<auxVars, rcVars, permission, scene, selected, isSyncing,
                   elementVersionMap, elementUpdateBuffer, saveArmed, saveArgs,
                   thrOpen, thrArmed, thrArgs, peers, chanUp, ghostVars>>

\* the server relays to B a cursor-move of a peer: of A while it is in the
\* room, of another peer at any time
CursorOfJoined ==
    \E u \in UserIds \ {"B"}, p \in Pointers :
        /\ u = "A" => "A" \in roomSockets
        /\ PeerCursorFrom(u, p)

DepartNext ==
    \/ CursorOfJoined
    \/ ClientCursorMove("B")
    \/ ClientPresenceUpdate("B")
    \/ Frame("B")
    \/ ServerDisconnect("A")

SpecDepart == JoinedInit /\ [][DepartNext]_vars

(***************************************************************************)
(* SpecMalformed: B fed by a peer whose elements may lack version,         *)
(* versionNonce or both.  The server relays the payload as it is, so such  *)
(* an element reaches B's buffer, its dedupMap, reconcileElements, its     *)
(* scene and, with the next onChange, hasElementChanged and                *)
(* recordElementVersion.                                                   *)
(***************************************************************************)
\* elements with each of the two fields present or not
PartlyFormed ==
    {[id |-> i, version |-> v, versionNonce |-> n, isDeleted |-> FALSE] :
        i \in Ids, v \in (0..MaxVersion) \cup {Missing}, n \in Nonces \cup {Missing}}

\* the server relays an element-update of a peer that carries one element
PeerUpdateMalformed ==
    /\ peerSent < MaxDrainUpdates
    /\ "B" \in roomSockets
    /\ peerSent' = peerSent + 1
    /\ \E el \in PartlyFormed :
          chanDown' = [chanDown EXCEPT !["B"] = Append(@, ElementUpdate("A", << el >>))]
    /\ UNCHANGED <<auxVars, rcVars, clientVars, chanUp, roomSockets, roomUsers, storeCalls,
                   excluded, lastDrain, edits>>

MalformedNext ==
    \/ \E id \in Ids : Select("B", id)
    \/ CanvasChange("B")
    \/ ThrottleTimer("B")
    \/ ClientElementUpdate("B")
    \/ Frame("B")
    \/ PeerUpdateMalformed

SpecMalformed == JoinedInit /\ [][MalformedNext]_vars

(***************************************************************************)
(* SpecOrder: a local sequence and two remote batches, the batches applied *)
(* in both orders.  An element's nonce tells where it comes from: 0 the    *)
(* local sequence, 1 the first batch, 2 the second.                        *)
(***************************************************************************)
OrderElements(nonce) ==
    {[id |-> i, version |-> v, versionNonce |-> nonce, isDeleted |-> FALSE] :
        i \in Ids, v \in 0..MaxOrderVersion}

OrderSeqs(nonce) ==
    {s \in SeqsUpTo(OrderElements(nonce), Cardinality(Ids)) : DistinctIds(s)}

OrderInit ==
    /\ rcLocal \in OrderSeqs(0)
    /\ rcMerged = rcLocal
    /\ rcRemote = << >>
    /\ rcMaxSeen = [id \in Ids |-> SeenMax(rcLocal, id, Missing)]
    /\ rcSteps = 0
    /\ RoomIdle
    /\ SrvStart
    /\ CursorStart

\* two render ticks, against the same two ticks with the batches swapped
ReconcileBothOrders ==
    /\ rcSteps = 0
    /\ \E first \in OrderSeqs(1), second \in OrderSeqs(2) :
          /\ rcRemote' = first
          /\ ordRemote' = second
          /\ rcMerged' = reconcileElements(reconcileElements(rcLocal, first), second)
          /\ ordMerged' = reconcileElements(reconcileElements(rcLocal, second), first)
          /\ rcMaxSeen' = [id \in Ids |->
                              SeenMax(second, id, SeenMax(first, id, rcMaxSeen[id]))]
    /\ rcSteps' = rcSteps + 1
    /\ UNCHANGED <<rcLocal, roomVars, srvVars, cursorVars, thrTimeVars, hcLast, viewVars,
                   rejoinVars, storeVars>>

OrderNext == ReconcileBothOrders

SpecOrder == OrderInit /\ [][OrderNext]_vars

(***************************************************************************)
(* SpecTracker: recordElementVersion and hasElementChanged of one          *)
(* SharedView (A) called with any element, in any order.                   *)
(***************************************************************************)
\* the tracker after hasElementChanged(el): an id never seen is recorded
AfterHasElementChanged(map, el) ==
    IF map[el.id] = NoEntry THEN [map EXCEPT ![el.id] = VersionInfo(el)] ELSE map

\* hasElementChanged(element)
HasElementChangedCall(el) ==
    /\ hcLast' = [op |-> "hasElementChanged", element |-> el,
                  result |-> hasElementChanged(elementVersionMap["A"], el),
                  before |-> elementVersionMap["A"]]
    /\ elementVersionMap' =
          [elementVersionMap EXCEPT !["A"] = AfterHasElementChanged(@, el)]
    /\ UNCHANGED <<permission, scene, selected, isSyncing, elementUpdateBuffer,
                   saveArmed, saveArgs, thrOpen, thrArmed, thrArgs, peers,
                   connected, netVars, ghostVars>>
    /\ UNCHANGED <<rcVars, srvVars, cursorVars, thrTimeVars, viewVars, moreVars>>

\* recordElementVersion(element)
RecordElementVersionCall(el) ==
    /\ hcLast' = [op |-> "recordElementVersion", element |-> el, result |-> FALSE,
                  before |-> elementVersionMap["A"]]
    /\ elementVersionMap' =
          [elementVersionMap EXCEPT !["A"] = [@ EXCEPT ![el.id] = VersionInfo(el)]]
    /\ UNCHANGED <<permission, scene, selected, isSyncing, elementUpdateBuffer,
                   saveArmed, saveArgs, thrOpen, thrArmed, thrArgs, peers,
                   connected, netVars, ghostVars>>
    /\ UNCHANGED <<rcVars, srvVars, cursorVars, thrTimeVars, viewVars, moreVars>>

TrackerNext ==
    \/ \E el \in Elements : HasElementChangedCall(el)
    \/ \E el \in Elements : RecordElementVersionCall(el)

SpecTracker == SrvInit /\ [][TrackerNext]_vars

(***************************************************************************)
(* Properties of the Reconciliation Engine (under SpecReconcile).          *)
(***************************************************************************)
\* a remote element of the last batch and the local element it met
Met(i, j) ==
    /\ i \in DOMAIN rcLocal
    /\ j \in DOMAIN rcRemote
    /\ rcLocal[i].id = rcRemote[j].id

\* C1 (version monotonicity): after any sequence of batches, every id seen
\* so far is in the result, at a version that is at least the highest
\* version the original local sequence or any batch carried for it.
C1_VersionMonotonic ==
    \A id \in Ids :
        rcMaxSeen[id] # Missing =>
            /\ HasId(rcMerged, id)
            /\ Ver(ById(rcMerged, id)) >= rcMaxSeen[id]

\* a second (or later) batch that is stale for an id whose maximum came earlier
C1_Witness ==
    /\ rcSteps >= 2
    /\ \E i \in DOMAIN rcLocal, j \in DOMAIN rcRemote :
          /\ Met(i, j)
          /\ Ver(rcRemote[j]) < rcMaxSeen[rcRemote[j].id]
          /\ Ver(rcMerged[i]) = rcMaxSeen[rcRemote[j].id]
    /\ \E j \in DOMAIN rcRemote : ~HasId(rcLocal, rcRemote[j].id)

\* C2 (stale-update rejection): a remote element older than the local one of
\* the same id leaves that local element as it was, at its position, and is
\* itself not in the result.
C2_StaleRejected ==
    \A i \in DOMAIN rcLocal, j \in DOMAIN rcRemote :
        (Met(i, j) /\ Ver(rcRemote[j]) < Ver(rcLocal[i])) =>
            /\ i \in DOMAIN rcMerged
            /\ rcMerged[i] = rcLocal[i]
            /\ \A k \in DOMAIN rcMerged : rcMerged[k] # rcRemote[j]

C2_Witness ==
    /\ rcSteps >= 1
    /\ \E i \in DOMAIN rcLocal, j \in DOMAIN rcRemote :
          /\ Met(i, j)
          /\ Ver(rcRemote[j]) < Ver(rcLocal[i])
          /\ rcMerged[i] = rcLocal[i]
    /\ rcMerged # rcLocal

\* C3 (tie-break on equal version): at equal versions the remote element
\* replaces the local one if the nonces differ, and the local one stays if
\* the nonces are equal too.
C3_TieBreak ==
    \A i \in DOMAIN rcLocal, j \in DOMAIN rcRemote :
        (Met(i, j) /\ Ver(rcRemote[j]) = Ver(rcLocal[i])) =>
            /\ i \in DOMAIN rcMerged
            /\ Nonce(rcRemote[j]) # Nonce(rcLocal[i]) => rcMerged[i] = rcRemote[j]
            /\ Nonce(rcRemote[j]) = Nonce(rcLocal[i]) => rcMerged[i] = rcLocal[i]

\* both cases in one call: one id taken from the remote batch, one id kept
\* although the remote element of the same fingerprint is another record
C3_Witness ==
    /\ rcSteps >= 1
    /\ \E i \in DOMAIN rcLocal, j \in DOMAIN rcRemote :
          /\ Met(i, j)
          /\ Ver(rcRemote[j]) = Ver(rcLocal[i])
          /\ Nonce(rcRemote[j]) # Nonce(rcLocal[i])
          /\ rcMerged[i] = rcRemote[j]
    /\ \E i \in DOMAIN rcLocal, j \in DOMAIN rcRemote :
          /\ Met(i, j)
          /\ Ver(rcRemote[j]) = Ver(rcLocal[i])
          /\ Nonce(rcRemote[j]) = Nonce(rcLocal[i])
          /\ rcRemote[j] # rcLocal[i]
          /\ rcMerged[i] = rcLocal[i]

\* C4 (idempotence): reconciling the result with the same batch once more
\* returns the result.
C4_Idempotent ==
    rcSteps >= 1 => reconcileElements(rcMerged, rcRemote) = rcMerged

\* a batch that both replaced a local element and appended a new one
C4_Witness ==
    /\ rcSteps >= 1
    /\ Len(rcMerged) > Len(rcLocal)
    /\ \E i \in DOMAIN rcLocal : rcMerged[i] # rcLocal[i]
    /\ reconcileElements(rcMerged, rcRemote) = rcMerged


(***************************************************************************)
(* Properties of the room (Spec, SpecLive) and of one SharedView           *)
(* (SpecView).                                                             *)
(***************************************************************************)
\* A and B have joined, A has emitted x at version 1, B does not hold x
C5_Sent ==
    /\ {"A", "B"} \subseteq roomSockets
    /\ \E i \in DOMAIN chanUp["A"] :
          /\ chanUp["A"][i].type = "element-update"
          /\ \E j \in DOMAIN chanUp["A"][i].elements :
                /\ chanUp["A"][i].elements[j].id = "x"
                /\ Ver(chanUp["A"][i].elements[j]) = 1
    /\ ~HasId(scene["B"], "x")
    /\ "x" \notin selected["B"]

\* C5 as stated: once A and B have joined and A has emitted x at version 1,
\* which B does not hold, B's scene eventually contains x at version 1
C5_DeliveredAtVersion1 ==
    C5_Sent ~> (HasId(scene["B"], "x") /\ Ver(ById(scene["B"], "x")) = 1)

\* C5, amended: once A and B have joined and A has emitted x at version 1,
\* which B does not hold, B's scene eventually contains x, at version 1 or at
\* a later version of x that A emitted (a tick applies only the highest
\* buffered version of an id); B may view or edit
C5_Delivered ==
    C5_Sent ~> (HasId(scene["B"], "x") /\ Ver(ById(scene["B"], "x")) >= 1
                                       /\ Nonce(ById(scene["B"], "x")) = NonceOf("A"))

\* B, a viewer in the room with A, shows the x that A created
C5_Witness ==
    /\ {"A", "B"} \subseteq roomSockets
    /\ permission["B"] = "view"
    /\ HasId(scene["A"], "x")
    /\ HasId(scene["B"], "x")
    /\ ById(scene["B"], "x") = ById(scene["A"], "x")
    /\ Nonce(ById(scene["B"], "x")) = NonceOf("A")

\* C6: when the debounce timer of an editing client expires, the store's
\* update is called once, with the non-deleted elements of the last change
\* event the client handled
C6_DebouncedSave ==
    [][\A c \in Clients :
          (MayEdit(c) /\ DebounceTimer(c)) =>
              storeCalls'[c] = Append(storeCalls[c], NonDeleted(saveArgs[c]))]_vars

\* C7: a client whose permission is view never calls the store's update and
\* never emits element-update, whatever it changes locally
C7_ViewOnlyGate ==
    \A c \in Clients :
        permission[c] = "view" =>
            /\ storeCalls[c] = << >>
            /\ \A i \in DOMAIN chanUp[c] : chanUp[c][i].type # "element-update"
            /\ ~saveArmed[c]
            /\ ~thrOpen[c]

\* a viewer has edited an element of its scene, and every timer is at rest
C7_Witness ==
    /\ permission["B"] = "view"
    /\ \E i \in DOMAIN scene["B"] :
          /\ Nonce(scene["B"][i]) = NonceOf("B")
          /\ Ver(scene["B"][i]) >= 2
    /\ "B" \in roomSockets
    /\ chanUp["B"] = << >>

\* C8: a render tick hands no element of a selected id to reconciliation and
\* leaves the scene's element of every selected id as it was
C8_SelectionExclusion ==
    [][\A c \in Clients :
          Frame(c) =>
              \A id \in selected[c] :
                  /\ ~HasId(RemoteElements(c), id)
                  /\ HasId(scene[c], id) = HasId(scene'[c], id)
                  /\ HasId(scene[c], id) => ById(scene'[c], id) = ById(scene[c], id)]_vars

\* the last tick left out an update of a selected element that would have
\* won over the scene's element, and applied the rest
C8_Witness ==
    \E c \in Clients :
        /\ isSyncing[c]
        /\ \E i \in DOMAIN excluded[c] :
              /\ excluded[c][i].id \in selected[c]
              /\ Ver(excluded[c][i]) > Ver(ById(scene[c], excluded[c][i].id))
        /\ \E j \in DOMAIN scene[c] :
              /\ scene[c][j].id \notin selected[c]
              /\ Nonce(scene[c][j]) = NonceOf("A")

\* C9: a buffered update of a selected element is still buffered after the
\* render tick
C9_SelectionRetention ==
    [][\A c \in Clients :
          Frame(c) =>
              \A i \in DOMAIN elementUpdateBuffer[c] :
                  elementUpdateBuffer[c][i].id \in selected[c] =>
                      \E j \in DOMAIN elementUpdateBuffer'[c] :
                          elementUpdateBuffer'[c][j] = elementUpdateBuffer[c][i]]_vars

\* C10: a client emits no element that another client authored (such an
\* element is in its scene only because the render loop applied a remote
\* update)
C10_NoEcho ==
    \A c \in Clients :
        \A i \in DOMAIN chanUp[c] :
            chanUp[c][i].type = "element-update" =>
                \A j \in DOMAIN chanUp[c][i].elements :
                    Nonce(chanUp[c][i].elements[j]) \in {0, NonceOf(c)}

(***************************************************************************)
(* Properties of the server's rooms (SpecServer).                          *)
(***************************************************************************)
\* C11: a cursor-move or element-update of socket s naming drawing d is
\* emitted only to sockets that joined d's room, never to s, and leaves the
\* rooms, the registry and the stored drawings as they were
C11_RelayScope ==
    [][\A s \in Sockets, d \in Rooms :
          (/\ srvEvent'.type \in {"cursor-move", "element-update"}
           /\ SrvCursorMove(s, d) \/ SrvElementUpdate(s, d)) =>
              /\ \A e \in emitted' :
                    /\ e.to \in socketRooms[d]
                    /\ e.to # s
                    /\ e.msg.room = d
                    /\ e.msg.type = srvEvent'.type
              /\ roomUsersMap' = roomUsersMap
              /\ socketRooms' = socketRooms
              /\ drawingVersion' = drawingVersion]_vars

\* an element-update of a member of a room has reached another member while
\* a socket that joined the other room only got nothing
C11_Witness ==
    /\ srvEvent.type = "element-update"
    /\ \E e \in emitted :
          /\ e.msg.from \in socketRooms[e.msg.room]
          /\ \E t \in sockets :
                /\ t \notin socketRooms[e.msg.room]
                /\ \E d \in Rooms : t \in socketRooms[d]
                /\ \A f \in emitted : f.to # t

\* the entries of a list that carry the user id
EntriesOf(users, id) == {i \in DOMAIN users : users[i].id = id}

\* C12: every room's list holds one entry per user id at most, and a
\* join-room leaves exactly one entry of the joining user id, which carries the
\* joining socket's id, after the entries of the other users
C12_JoinDedup ==
    /\ [](\A d \in DOMAIN roomUsersMap :
             \A i, j \in DOMAIN roomUsersMap[d] :
                 roomUsersMap[d][i].id = roomUsersMap[d][j].id => i = j)
    /\ [][\A s \in Sockets, d \in Rooms, user \in {"u1", "u2"} :
             (srvEvent'.type = "join-room" /\ SrvJoinRoom(s, d, user)) =>
                 /\ EntriesOf(roomUsersMap'[d], user) = {Len(roomUsersMap'[d])}
                 /\ roomUsersMap'[d][Len(roomUsersMap'[d])] =
                       [id |-> user, socketId |-> s, isActive |-> TRUE]
                 /\ SubSeq(roomUsersMap'[d], 1, Len(roomUsersMap'[d]) - 1) =
                       SelectSeq(CurrentUsers(d), LAMBDA u : u.id # user)]_vars

\* a user's second socket has joined a room where the first one had an
\* entry: the entry is the second socket's now
C12_Witness ==
    /\ srvEvent.type = "join-room"
    /\ "d1" \in DOMAIN roomUsersMap
    /\ "s1" \in socketRooms["d1"]
    /\ FindIndex(roomUsersMap["d1"], "s1") = 0
    /\ roomUsersMap["d1"] = <<[id |-> "u1", socketId |-> "s2", isActive |-> TRUE]>>
    /\ emitted = EmitTo({"s1", "s2"}, Msg("presence-update", "d1", "", roomUsersMap["d1"]))

\* C13: a join-room is answered by a presence-update that carries the room's
\* list as it is after the join and goes to every socket of the room, the
\* joining one included, and to no other socket
C13_RosterOnJoin ==
    [][\A s \in Sockets, d \in Rooms, user \in {"u1", "u2"} :
          (srvEvent'.type = "join-room" /\ SrvJoinRoom(s, d, user)) =>
              /\ s \in socketRooms'[d]
              /\ emitted' = {[to |-> t,
                              msg |-> Msg("presence-update", d, "", roomUsersMap'[d])] :
                                t \in socketRooms'[d]}]_vars

\* a join into a room that had a member: both sockets got the list of two
C13_Witness ==
    /\ srvEvent.type = "join-room"
    /\ \E d \in DOMAIN roomUsersMap :
          /\ Cardinality(socketRooms[d]) >= 2
          /\ Len(roomUsersMap[d]) = 2
          /\ \A t \in socketRooms[d] :
                \E e \in emitted : e.to = t /\ e.msg.users = roomUsersMap[d]

\* C14: when a socket disconnects, every room whose list holds an entry of
\* it loses what the socket had there and nothing else, and the sockets left
\* in that room get a presence-update with the new list; a room whose list
\* holds no entry of it keeps its list and gets no message
C14_LeaveOnDisconnect ==
    [][\A s \in Sockets :
          (srvEvent'.type = "disconnect" /\ SrvDisconnect(s)) =>
              /\ DOMAIN roomUsersMap' = DOMAIN roomUsersMap
              /\ \A d \in DOMAIN roomUsersMap :
                    IF \E i \in DOMAIN roomUsersMap[d] : roomUsersMap[d][i].socketId = s
                    THEN /\ roomUsersMap'[d] =
                               SelectSeq(roomUsersMap[d], LAMBDA u : u.socketId # s)
                         /\ \A t \in socketRooms[d] \ {s} :
                               [to |-> t,
                                msg |-> Msg("presence-update", d, "", roomUsersMap'[d])]
                                   \in emitted'
                    ELSE /\ roomUsersMap'[d] = roomUsersMap[d]
                         /\ \A e \in emitted' : e.msg.room # d
              /\ \A e \in emitted' :
                    /\ e.to # s
                    /\ e.msg.type = "presence-update"
                    /\ e.msg.room \in DOMAIN roomUsersMap
                    /\ e.to \in socketRooms[e.msg.room]]_vars

\* C15: the registry holds no room id with an empty list of participants
C15_NoEmptyRoom ==
    \A d \in DOMAIN roomUsersMap : roomUsersMap[d] # << >>

(***************************************************************************)
(* Properties of the cursor throttle (SpecCursor).                         *)
(***************************************************************************)
\* C16: two consecutive cursor-move emissions are more than 33 ms apart, so
\* any 50 ms hold two emissions at most, however many pointer events come;
\* a message carries the pointer of the event that emitted it, so an event
\* that came too soon is not emitted later
C16_CursorThrottle ==
    /\ \A i \in 1..(Len(cursorSent) - 1) :
          cursorSent[i + 1].at - cursorSent[i].at > 33
    /\ \A i \in 1..(Len(cursorSent) - 2) :
          cursorSent[i + 2].at - cursorSent[i].at > 50
    /\ \A i \in DOMAIN cursorSent : cursorSent[i].pointer = cursorSent[i].at

\* two emissions 34 ms apart, and pointer events since then that were dropped
C16_Witness ==
    /\ Len(cursorSent) = 2
    /\ cursorSent[2].at - cursorSent[1].at = 34
    /\ now = cursorSent[2].at + 33

(***************************************************************************)
(* Properties of the element throttle (SpecThrottle).                      *)
(***************************************************************************)
\* C17 as stated, its rate: two consecutive element-update emissions of a
\* client are 50 ms apart at least
C17_OnePer50ms ==
    \A i \in 1..(Len(elementSent) - 1) :
        elementSent[i + 1].at - elementSent[i].at >= 50

\* C17, amended: any three consecutive emissions span 50 ms at least (two
\* emissions may be closer: the trailing one of a burst and the leading one
\* of the next); when no call is held, every element of the scene has been
\* emitted in its present state (the trailing emission carries the last
\* event's state); an edit that comes when the throttle would invoke (the
\* first event of a burst) is emitted in that same instant
C17_Throttle ==
    /\ [](\A i \in 1..(Len(elementSent) - 2) :
             elementSent[i + 2].at - elementSent[i].at >= 50)
    /\ [](~thrArmed["A"] =>
             \A i \in DOMAIN scene["A"] :
                 /\ elementVersionMap["A"][scene["A"][i].id] = VersionInfo(scene["A"][i])
                 /\ \/ scene["A"][i] \in {InitialDrawing[j] : j \in DOMAIN InitialDrawing}
                    \/ \E k \in DOMAIN elementSent :
                          \E j \in DOMAIN elementSent[k].elements :
                              elementSent[k].elements[j] = scene["A"][i])
    /\ [][\A id \in Ids :
             (edits' = edits + 1 /\ ShouldInvoke /\ TimedLocalEdit("A", id)) =>
                 /\ Len(elementSent') = Len(elementSent) + 1
                 /\ elementSent'[Len(elementSent')].at = now
                 /\ \E j \in DOMAIN elementSent'[Len(elementSent')].elements :
                       elementSent'[Len(elementSent')].elements[j] = ById(scene'["A"], id)]_vars

\* three emissions: a leading one, the trailing one of that burst, and less
\* than 50 ms after it the leading one of the next burst; nothing is held
C17_Witness ==
    /\ Len(elementSent) = 3
    /\ elementSent[2].at - elementSent[1].at >= 50
    /\ elementSent[3].at - elementSent[2].at < 50
    /\ elementSent[3].at > elementSent[2].at
    /\ ~thrArmed["A"]

(***************************************************************************)
(* Properties of the version tracker (SpecTracker).                        *)
(***************************************************************************)
\* C18: change detection.  A call of hasElementChanged on an id never seen
\* returns true and records the element's (version, versionNonce), the other
\* entries staying as they were; on a seen id it returns true iff the stored
\* version or the stored versionNonce differs from the element's and leaves
\* the tracker unchanged; and a second call on the same unmodified element
\* directly after a first call on an unseen one returns false.
C18_ChangeDetection ==
    /\ [](hcLast.op = "hasElementChanged" =>
            LET el == hcLast.element
                before == hcLast.before
                after == elementVersionMap["A"]
            IN IF before[el.id] = NoEntry
               THEN /\ hcLast.result = TRUE
                    /\ after[el.id] = << Ver(el), Nonce(el) >>
                    /\ \A i \in Ids \ {el.id} : after[i] = before[i]
               ELSE /\ hcLast.result =
                          (before[el.id][1] # Ver(el) \/ before[el.id][2] # Nonce(el))
                    /\ after = before)
    /\ [][(/\ hcLast.op = "hasElementChanged"
           /\ hcLast.before[hcLast.element.id] = NoEntry
           /\ hcLast'.op = "hasElementChanged"
           /\ hcLast'.element = hcLast.element)
          => hcLast'.result = FALSE]_vars

\* a second call on a malformed element that the call before it saw for the
\* first time, answered false
C18_Witness ==
    /\ hcLast.op = "hasElementChanged"
    /\ hcLast.element \in Malformed
    /\ hcLast.result = FALSE
    /\ hcLast.before[hcLast.element.id] = << 0, 0 >>
    /\ hcLast.element.id = "x"

(***************************************************************************)
(* Properties of the render loop (SpecRender).                             *)
(***************************************************************************)
\* C19: single update per tick.  A tick of the render loop calls updateScene
\* at most once; a tick that drains buffered elements that are not all
\* selected, buffered cursors, or both, makes exactly one call, which carries
\* the reconciled elements and the merged cursors together and leaves both
\* buffers empty, however many messages were buffered.
C19_SingleUpdatePerTick ==
    /\ [](\A c \in Clients : Len(tickUpdates[c]) <= 1)
    /\ [][\A c \in Clients :
            (\/ elementUpdateBuffer[c] # << >> /\ elementUpdateBuffer'[c] = << >>
             \/ cursorBuffer[c] # NoCursors /\ cursorBuffer'[c] = NoCursors)
            => /\ elementUpdateBuffer'[c] = << >>
               /\ cursorBuffer'[c] = NoCursors
               /\ Len(tickUpdates'[c]) <= 1
               /\ RemoteElements(c) # << >> =>
                     /\ Len(tickUpdates'[c]) = 1
                     /\ "elements" \in tickUpdates'[c][1]
                     /\ scene'[c] = reconcileElements(scene[c], RemoteElements(c))
               /\ cursorBuffer[c] # NoCursors =>
                     /\ Len(tickUpdates'[c]) = 1
                     /\ "collaborators" \in tickUpdates'[c][1]
                     /\ collaborators'[c] = MergeCursors(collaborators[c], cursorBuffer[c])
               /\ RemoteElements(c) = << >> => scene'[c] = scene[c]
               /\ cursorBuffer[c] = NoCursors => collaborators'[c] = collaborators[c]]_vars

\* B's last tick made one call carrying elements and cursors, after an
\* element update and the cursors of two peers had arrived
C19_Witness ==
    /\ tickUpdates["B"] = << {"elements", "collaborators"} >>
    /\ collaborators["B"]["A"] # NoCursor
    /\ collaborators["B"]["P"] # NoCursor
    /\ peerSent = 1
    /\ elementUpdateBuffer["B"] = << >>
    /\ cursorBuffer["B"] = NoCursors

(***************************************************************************)
(* Properties of the teardown (SpecSession).                               *)
(***************************************************************************)
\* C20: cancellation on teardown.  Once the component is torn down nothing
\* of it is pending (no debounced save, no throttled emission, no requested
\* frame, no registered socket handler), and no step after the teardown is
\* the debounce timer, the throttle timer, a render tick or a socket handler
\* of that component: its store calls, its emissions, its scene, buffers,
\* cursors and peers stay as the teardown left them, whatever still arrives.
C20_CancelOnTeardown ==
    /\ [](\A c \in Clients : ~mounted[c] =>
            /\ ~saveArmed[c]
            /\ ~thrOpen[c]
            /\ ~thrArmed[c]
            /\ ~frameRequested[c]
            /\ ~listening[c])
    /\ [][\A c \in Clients : ~mounted[c] =>
            /\ ~DebounceTimer(c)
            /\ ~ThrottleTimer(c)
            /\ ~Frame(c)
            /\ ~Connect(c)
            /\ ~ClientElementUpdate(c)
            /\ ~ClientPresenceUpdate(c)
            /\ ~ClientCursorMove(c)
            /\ storeCalls'[c] = storeCalls[c]
            /\ chanUp'[c] = chanUp[c]
            /\ scene'[c] = scene[c]
            /\ elementUpdateBuffer'[c] = elementUpdateBuffer[c]
            /\ cursorBuffer'[c] = cursorBuffer[c]
            /\ collaborators'[c] = collaborators[c]
            /\ peers'[c] = peers[c]
            /\ tickUpdates'[c] = tickUpdates[c]]_vars

\* B is torn down while an edit of its own was held for the trailing edge
\* (the tracker never recorded it), with elements and a cursor buffered for
\* the next tick and a message of a peer not handled yet
C20_Witness ==
    /\ ~mounted["B"]
    /\ \E i \in DOMAIN scene["B"] :
          hasElementChanged(elementVersionMap["B"], scene["B"][i])
    /\ elementUpdateBuffer["B"] # << >>
    /\ cursorBuffer["B"] # NoCursors
    /\ chanDown["B"] # << >>

(***************************************************************************)
(* Properties of the rejoin (SpecRejoin).                                  *)
(***************************************************************************)
\* the entries of user u in the list of room d
UserEntries(d, u) == {i \in DOMAIN CurrentUsers(d) : CurrentUsers(d)[i].id = u}

\* u's SharedView is in the roster of d1 exactly once, under its own socket
InRosterOnce(u) ==
    /\ Cardinality(UserEntries("d1", u)) = 1
    /\ \A i \in UserEntries("d1", u) : CurrentUsers("d1")[i].socketId = cliSocket[u]

\* C21: self-healing rejoin.  Every time a client's connection is
\* established, after a drop or a server restart too, the client emits
\* join-room on the new socket; a connected client gets into the roster of
\* its room exactly once, under its new socket, unless the connection drops
\* again first; and once the drops are over every client stays in the roster
\* exactly once, whatever the server had lost or still held.
C21_SelfHealingRejoin ==
    /\ [][\A u \in RejoinUsers :
            (cliSocket'[u] # cliSocket[u] /\ cliSocket'[u] # NoSocket)
            => cliSocket'[u] \in pendingJoin']_vars
    /\ \A u \in RejoinUsers :
          (cliSocket[u] # NoSocket) ~> (InRosterOnce(u) \/ cliSocket[u] = NoSocket)
    /\ <>[](\A u \in RejoinUsers : InRosterOnce(u))

\* after a restart and a drop, u1 is back in the roster under a new socket
\* while the server has not yet handled the disconnect of a lost socket
C21_Witness ==
    /\ drops >= 2
    /\ srvEvent = Event("join-room")
    /\ InRosterOnce("u1")
    /\ \E s \in sockets : \A u \in RejoinUsers : cliSocket[u] # s

(***************************************************************************)
(* Properties of the stored drawing (SpecStore).                           *)
(***************************************************************************)
\* the requests that have updated the drawing
Persisted == {r \in ReqIds : reqs[r].status = 200 /\ reqs[r].kind \in {"owner", "shared"}}

\* C22: drawing version.  The version of the drawing is its initial version
\* plus the number of successful updates, owner's and share-token's alike,
\* however their handlers interleave; each successful update raises it by
\* exactly 1 and leaves its own content stored; and an update that has passed
\* its checks is never rejected, whatever version its writer held.
C22_DrawingVersion ==
    /\ [](drawingVersion["d1"] = InitialVersion + Cardinality(Persisted))
    /\ [][\A r \in ReqIds :
            (reqs[r].kind \in {"owner", "shared"} /\ reqs[r].pc = "checked"
                /\ reqs'[r].pc = "done")
            => /\ reqs'[r].status = 200
               /\ drawingVersion'["d1"] = drawingVersion["d1"] + 1
               /\ content' = r]_vars

\* an owner update and a share-token update ran concurrently, both from
\* version 1, and both were stored: the last one's content, version 3
C22_Witness ==
    /\ \E r1 \in Persisted, r2 \in Persisted :
          /\ reqs[r1].kind = "owner"
          /\ reqs[r2].kind = "shared"
          /\ reqs[r1].held = InitialVersion
          /\ reqs[r2].held = InitialVersion
          /\ content = r1
    /\ drawingVersion["d1"] = InitialVersion + 2

\* C23: share-token write gate.  An update through a share token ends with
\* 404 (unknown token), 403 or 200, and the step in which it changes the
\* drawing, content or version, is taken only while the link is active, not
\* expired and of permission edit, also when the link is deactivated or set
\* to view while the request is in flight; a request that ends with an
\* error leaves the drawing as it was.
C23_ShareWriteGate ==
    /\ [](\A r \in ReqIds : (reqs[r].kind = "shared" /\ reqs[r].pc = "done")
                               => reqs[r].status \in {200, 403, 404})
    /\ [][\A r \in ReqIds :
            (reqs'[r].kind = "shared" /\ reqs[r].pc # "done" /\ reqs'[r].pc = "done")
            => IF reqs'[r].status = 200
               THEN /\ link.isActive
                    /\ ~link.expired
                    /\ link.permission = "edit"
               ELSE /\ content' = content
                    /\ drawingVersion' = drawingVersion]_vars

(***************************************************************************)
(* Properties of the joined room (SpecJoined).                             *)
(***************************************************************************)
\* nothing is on its way: no message emitted and not yet applied, no call
\* held by a throttle, no element of a scene that its client's tracker has
\* not recorded (every local change has been emitted)
Quiescent ==
    \A c \in Clients :
        /\ chanUp[c] = << >>
        /\ chanDown[c] = << >>
        /\ elementUpdateBuffer[c] = << >>
        /\ ~thrArmed[c]
        /\ \A i \in DOMAIN scene[c] : ~hasElementChanged(elementVersionMap[c], scene[c][i])

\* C24: convergence at quiescence.  When A and B, both in the room and
\* editing, have stopped and every element-update emitted has been delivered
\* and applied by the receiver's render loop (nothing is selected), the two
\* scenes hold the same ids with the same (version, versionNonce) each.
C24_Convergence ==
    Quiescent =>
        \A id \in Ids :
            /\ HasId(scene["A"], id) <=> HasId(scene["B"], id)
            /\ HasId(scene["A"], id) =>
                  VersionInfo(ById(scene["A"], id)) = VersionInfo(ById(scene["B"], id))

(***************************************************************************)
(* Properties of what one client emits (SpecEmit).                         *)
(***************************************************************************)
\* the element states the i-th message of c carries: <<id, version, nonce>>
StatesIn(c, i) ==
    {<<chanUp[c][i].elements[j].id, VersionInfo(chanUp[c][i].elements[j])>> :
        j \in DOMAIN chanUp[c][i].elements}

\* C25: no duplicate broadcast.  No two element-update messages that B has
\* emitted carry the same id with the same (version, versionNonce), whatever
\* updates of the peer, stale ones too, B received in between.
C25_NoDuplicateBroadcast ==
    \A i, j \in DOMAIN chanUp["B"] :
        (i < j /\ chanUp["B"][i].type = "element-update"
               /\ chanUp["B"][j].type = "element-update")
        => StatesIn("B", i) \cap StatesIn("B", j) = {}

\* B's scene holds B's own edit of id at version v
LocallyChanged(id, v) ==
    /\ HasId(scene["B"], id)
    /\ VersionInfo(ById(scene["B"], id)) = <<v, NonceOf("B")>>

\* B has emitted its edit of id at version v or at a later one
EmittedSince(id, v) ==
    \E i \in DOMAIN chanUp["B"] :
        \E j \in DOMAIN chanUp["B"][i].elements :
            /\ chanUp["B"][i].elements[j].id = id
            /\ Nonce(chanUp["B"][i].elements[j]) = NonceOf("B")
            /\ Ver(chanUp["B"][i].elements[j]) >= v

\* C26: local edits are eventually broadcast.  Every element change B makes,
\* connected and with permission edit, is eventually emitted in an
\* element-update (at its version or, the throttle holding only the last
\* call, at a later one of B), also when its change event fires while
\* isSyncing is set and no further change event follows.
C26_EditsEventuallyBroadcast ==
    \A id \in Ids : \A v \in 1..(InitialVersion + MaxEdits) :
        LocallyChanged(id, v) ~> EmittedSince(id, v)

(***************************************************************************)
(* More properties of the Reconciliation Engine (SpecReconcile, SpecOrder). *)
(***************************************************************************)
\* the ids of a sequence of elements, in its order
IdsOf(s) == [i \in DOMAIN s |-> s[i].id]

\* C27: shape of the reconciled sequence.  reconcile(L, R) lists the ids of
\* L in L's order, a replaced element in the place of the one it replaces,
\* followed by the ids of R that L does not hold, in R's order; so no id of
\* L or R is missing and none is added, and every element of the result is
\* the element L or R carries for its id, a deleted one kept as it is.
C27_ReconciledShape ==
    /\ IdsOf(rcMerged) =
          IdsOf(rcLocal) \o IdsOf(SelectSeq(rcRemote, LAMBDA el : ~HasId(rcLocal, el.id)))
    /\ \A i \in DOMAIN rcMerged :
          \/ HasId(rcLocal, rcMerged[i].id) /\ rcMerged[i] = ById(rcLocal, rcMerged[i].id)
          \/ HasId(rcRemote, rcMerged[i].id) /\ rcMerged[i] = ById(rcRemote, rcMerged[i].id)

\* a remote batch replaced the first of two local elements by a newer,
\* deleted one and brought nothing else: the order is the local one
C27_Witness ==
    /\ rcSteps >= 1
    /\ Len(rcLocal) = 2
    /\ Len(rcRemote) = 1
    /\ rcRemote[1].id = rcLocal[1].id
    /\ rcRemote[1].isDeleted
    /\ ~rcLocal[1].isDeleted
    /\ rcMerged = << rcRemote[1], rcLocal[2] >>

\* the version s carries for id (s holds id)
VersionIn(s, id) == Ver(ById(s, id))

\* for every id, the versions that L, R1 and R2 carry for it are pairwise
\* different
PairwiseDifferent(L, R1, R2) ==
    \A id \in Ids :
        /\ (HasId(L, id) /\ HasId(R1, id)) => VersionIn(L, id) # VersionIn(R1, id)
        /\ (HasId(L, id) /\ HasId(R2, id)) => VersionIn(L, id) # VersionIn(R2, id)
        /\ (HasId(R1, id) /\ HasId(R2, id)) => VersionIn(R1, id) # VersionIn(R2, id)

\* the two sequences hold the same ids with the same element each
SameStates(s, t) ==
    \A id \in Ids :
        /\ HasId(s, id) <=> HasId(t, id)
        /\ HasId(s, id) => ById(s, id) = ById(t, id)

\* C28: order tolerance.  When for every id the versions carried by the
\* local sequence and the two remote batches are pairwise different,
\* applying the first batch and then the second gives the same element for
\* every id as applying the second and then the first.
C28_OrderTolerance ==
    (rcSteps = 1 /\ PairwiseDifferent(rcLocal, rcRemote, ordRemote))
        => SameStates(rcMerged, ordMerged)

\* all three carry x at different versions, the first batch the highest;
\* its element is kept in both orders, and the batches bring y in different
\* places of the two results
C28_Witness ==
    /\ rcSteps = 1
    /\ PairwiseDifferent(rcLocal, rcRemote, ordRemote)
    /\ HasId(rcLocal, "x") /\ HasId(rcRemote, "x") /\ HasId(ordRemote, "x")
    /\ VersionIn(rcRemote, "x") > VersionIn(ordRemote, "x")
    /\ VersionIn(ordRemote, "x") > VersionIn(rcLocal, "x")
    /\ ById(rcMerged, "x") = ById(rcRemote, "x")
    /\ ById(ordMerged, "x") = ById(rcRemote, "x")
    /\ HasId(rcRemote, "y") /\ ~HasId(rcLocal, "y")

\* the ids of the buffered updates
BufferedIds(buf) == {buf[i].id : i \in DOMAIN buf}

\* the highest version among the buffered updates of id
MaxBuffered(buf, id) ==
    LET versions == {Ver(buf[i]) : i \in {j \in DOMAIN buf : buf[j].id = id}}
    IN  CHOOSE v \in versions : \A w \in versions : w <= v

\* out holds exactly one element for every id of buf and nothing else, each
\* a buffered update of the highest version of its id
OnePerIdAtMax(buf, out) ==
    /\ \A id \in BufferedIds(buf) :
          Cardinality({i \in DOMAIN out : out[i].id = id}) = 1
    /\ \A i \in DOMAIN out :
          /\ \E j \in DOMAIN buf : buf[j] = out[i]
          /\ Ver(out[i]) = MaxBuffered(buf, out[i].id)

\* C29: buffer drain de-duplication.  A render tick that finds updates in
\* the element buffer reduces them to exactly one element per id, of the
\* highest version buffered for that id since the last tick: that element
\* is the one recorded for an id that is not selected and the one left out
\* for a selected id; the buffer is empty after the drain.
C29_DrainDedup ==
    [][\A c \in Clients :
          (elementUpdateBuffer[c] # << >> /\ Frame(c)) =>
              LET buf == elementUpdateBuffer[c] IN
              /\ elementUpdateBuffer'[c] = << >>
              /\ OnePerIdAtMax(buf, Dedup(buf, << >>))
              /\ \A id \in BufferedIds(buf) \ selected[c] :
                    /\ elementVersionMap'[c][id] # << >>
                    /\ elementVersionMap'[c][id][1] = MaxBuffered(buf, id)
              /\ OnePerIdAtMax(SelectSeq(buf, LAMBDA el : el.id \in selected[c]),
                               excluded'[c])
              /\ lastDrain'[c] = Len(buf) - Cardinality(BufferedIds(buf))]_vars

\* the last tick of B found two updates of x and two of y in the buffer
\* and kept one of each at version 2: the one of x is recorded and applied,
\* the one of y, which B has selected, is left out; the buffer is empty
C29_Witness ==
    /\ lastDrain["B"] = 2
    /\ elementUpdateBuffer["B"] = << >>
    /\ isSyncing["B"]
    /\ selected["B"] = {"y"}
    /\ Len(excluded["B"]) = 1 /\ excluded["B"][1].id = "y" /\ Ver(excluded["B"][1]) = 2
    /\ elementVersionMap["B"]["x"] # << >>
    /\ elementVersionMap["B"]["x"][1] = 2
    /\ HasId(scene["B"], "x") /\ Ver(ById(scene["B"], "x")) = 2

\* the places of the room's list that hold an entry of the socket
EntriesWith(users, s) == {i \in DOMAIN users : users[i].socketId = s}

\* C30: activity toggle frame.  A user-activity message of socket s naming
\* room d leaves the sockets, the room memberships and every list of every
\* room as long as it was, with the same id and socketId in every place;
\* every entry of another room or of another socket is unchanged.  When d's
\* list holds an entry of s, the first such entry carries the flag of the
\* message and the list is sent as presence-update to every socket of the
\* room; when it holds none, no list changes and nothing is sent.
C30_ActivityFrame ==
    [][\A s \in Sockets, d \in Rooms, isActive \in BOOLEAN :
          (srvEvent'.type = "user-activity" /\ SrvUserActivity(s, d, isActive)) =>
              LET mine == IF d \in DOMAIN roomUsersMap
                          THEN EntriesWith(roomUsersMap[d], s) ELSE {}
              IN
              /\ sockets' = sockets
              /\ socketRooms' = socketRooms
              /\ DOMAIN roomUsersMap' = DOMAIN roomUsersMap
              /\ \A r \in DOMAIN roomUsersMap :
                    /\ Len(roomUsersMap'[r]) = Len(roomUsersMap[r])
                    /\ \A i \in DOMAIN roomUsersMap[r] :
                          /\ roomUsersMap'[r][i].id = roomUsersMap[r][i].id
                          /\ roomUsersMap'[r][i].socketId = roomUsersMap[r][i].socketId
                          /\ (r # d \/ roomUsersMap[r][i].socketId # s)
                                => roomUsersMap'[r][i] = roomUsersMap[r][i]
              /\ IF mine = {}
                 THEN /\ roomUsersMap' = roomUsersMap
                      /\ emitted' = {}
                 ELSE /\ \E i \in mine :
                            /\ \A j \in mine : i <= j
                            /\ roomUsersMap'[d][i].isActive = isActive
                      /\ emitted' =
                            {[to |-> t,
                              msg |-> Msg("presence-update", d, "", roomUsersMap'[d])] :
                                 t \in socketRooms[d]}]_vars

\* a user-activity message has set one of the two participants of a room
\* idle, the other is active as before, and both sockets of the room get the
\* list
C30_Witness ==
    /\ srvEvent.type = "user-activity"
    /\ \E d \in DOMAIN roomUsersMap :
          /\ Len(roomUsersMap[d]) = 2
          /\ ~roomUsersMap[d][1].isActive
          /\ roomUsersMap[d][2].isActive
          /\ roomUsersMap[d][1].socketId # roomUsersMap[d][2].socketId
          /\ socketRooms[d] = {roomUsersMap[d][1].socketId, roomUsersMap[d][2].socketId}
          /\ emitted = {[to |-> t, msg |-> Msg("presence-update", d, "", roomUsersMap[d])] :
                           t \in socketRooms[d]}

\* the element with 0 in the place of a field it lacks
Normal(el) ==
    [el EXCEPT !.version = IF @ = Missing THEN 0 ELSE @,
               !.versionNonce = IF @ = Missing THEN 0 ELSE @]

NormalSeq(s) == [i \in DOMAIN s |-> Normal(s[i])]

\* the elements B holds or is about to receive
ElementsAt(c) ==
    {scene[c][i] : i \in DOMAIN scene[c]}
        \cup {elementUpdateBuffer[c][i] : i \in DOMAIN elementUpdateBuffer[c]}
        \cup UNION {{chanDown[c][k].elements[i] : i \in DOMAIN chanDown[c][k].elements} :
                       k \in DOMAIN chanDown[c]}

\* C31: permissive handling of malformed elements.  For an element that
\* lacks version, versionNonce or both, the version tracker records and
\* compares what it records and compares for the same element with 0 in the
\* place of what is lacking; and a render tick gives, up to those zeros, the
\* dedupMap values, the reconciled scene and the tracker that it gives for
\* the buffer and the scene with the zeros filled in.
C31_MalformedAsZero ==
    /\ [](\A c \in Clients : \A el \in ElementsAt(c) :
             /\ VersionInfo(el) = << Normal(el).version, Normal(el).versionNonce >>
             /\ hasElementChanged(elementVersionMap[c], el)
                   = hasElementChanged(elementVersionMap[c], Normal(el)))
    /\ [][\A c \in Clients :
             (elementUpdateBuffer[c] # << >> /\ Frame(c)) =>
                 LET buf == NormalSeq(elementUpdateBuffer[c])
                     remote == SelectSeq(Dedup(buf, << >>), LAMBDA el : NotSelected(c, el))
                 IN  /\ NormalSeq(Dedup(elementUpdateBuffer[c], << >>)) = Dedup(buf, << >>)
                     /\ NormalSeq(scene'[c]) =
                           IF remote # << >>
                           THEN reconcileElements(NormalSeq(scene[c]), remote)
                           ELSE NormalSeq(scene[c])
                     /\ elementVersionMap'[c] =
                           IF remote # << >>
                           THEN recordAll(elementVersionMap[c], remote)
                           ELSE elementVersionMap[c]]_vars

\* B has applied a peer's x that lacks both fields, recorded it as (0, 0),
\* and the onChange that followed found it unchanged: the scene went to the
\* debounced save and nothing was emitted
C31_Witness ==
    /\ HasId(scene["B"], "x")
    /\ ById(scene["B"], "x").version = Missing
    /\ ById(scene["B"], "x").versionNonce = Missing
    /\ elementVersionMap["B"]["x"] = << 0, 0 >>
    /\ saveArmed["B"] /\ saveArgs["B"] = scene["B"]
    /\ thrOpen["B"]
    /\ chanUp["B"] = << >>

C33_NoEntrySurvives ==
    [][\A s \in Sockets :
          (srvEvent'.type = "disconnect" /\ SrvDisconnect(s)) =>
              \A d \in DOMAIN roomUsersMap' :
                  \A i \in DOMAIN roomUsersMap'[d] : roomUsersMap'[d][i].socketId # s]_vars

\* socket s has joined room d and d's list holds no entry of it: a join-room
\* of another socket with the same user id has replaced its entry
EntryReplaced(s, d) ==
    /\ s \in sockets
    /\ s \in socketRooms[d]
    /\ d \in DOMAIN roomUsersMap
    /\ EntriesWith(roomUsersMap[d], s) = {}

\* C34: reconnect race.  When a user has rejoined its room through a new
\* socket before the server handles the disconnect of the old one, that late
\* disconnect leaves the room's list as it is, the user's new entry with it,
\* and no presence-update is sent.
C34_LateDisconnectHarmless ==
    [][\A s \in Sockets :
          (srvEvent'.type = "disconnect" /\ EntryReplaced(s, "d1") /\ LateDisconnect(s)) =>
              /\ roomUsersMap' = roomUsersMap
              /\ emitted' = {}
              /\ \A u \in RejoinUsers :
                    (cliSocket[u] # NoSocket /\ InRosterOnce(u)) => InRosterOnce(u)']_vars

\* the server has just handled a disconnect that sent nothing, both users
\* are in the roster once under their current sockets after a drop, and no
\* lost socket is left
C34_Witness ==
    /\ srvEvent = Event("disconnect")
    /\ emitted = {}
    /\ drops >= 1
    /\ \A u \in RejoinUsers : cliSocket[u] # NoSocket /\ InRosterOnce(u)
    /\ sockets = {cliSocket[u] : u \in RejoinUsers}
    /\ pendingJoin = {}

\* C35: roster matches membership.  Every connected socket that has sent
\* join-room for a room and has not disconnected has an entry with its
\* socketId in that room's list.
C35_RosterMatchesMembership ==
    \A d \in Rooms : \A s \in socketRooms[d] \cap sockets :
        /\ d \in DOMAIN roomUsersMap
        /\ EntriesWith(roomUsersMap[d], s) # {}

\* C36: departed peers lose their cursor.  Once A has disconnected and B has
\* handled every message it was sent, the presence-update of the disconnect
\* among them, and has rendered what it buffered, B's collaborators hold no
\* cursor of A.
C36_DepartedLoseCursor ==
    ("A" \notin roomSockets /\ chanDown["B"] = << >> /\ cursorBuffer["B"] = NoCursors)
        => collaborators["B"]["A"] = NoCursor

(***************************************************************************)
(* Properties of the drawings-list cache (SpecCache).                      *)
(***************************************************************************)
\* C37: drawings list cache freshness.  Every write of the drawing is
\* answered in the step that stores it, so the stored version is that of
\* the last completed write; a list request that is answered from the cache
\* gets a body that shows that version, never an earlier one.
C37_CacheFreshness ==
    [][\A q \in ReqIds :
          (reqs[q].pc = "idle" /\ drawingsCache # NoCacheEntry /\ ListLookup(q)) =>
              reqs'[q].held = drawingVersion["d1"]]_vars

====
